---- MODULE Spec2Model ----
(***************************************************************************)
(* daiv-sandbox: the session endpoints of daiv_sandbox/main.py over the    *)
(* container engine, and the archive sanitizer of daiv_sandbox/sessions.py *)
(***************************************************************************)
EXTENDS Integers, Sequences, FiniteSets, TLC

VARIABLES
    containers,   \* engine: container id -> container (labels, status)
    volumes,      \* engine: volume name -> "none" | "present" | "removed"
    last,         \* the last request handled and the response it got
    log,          \* the engine calls the last request made, in order
    data,         \* sanitizer: the input archive of _sanitize_archive_bytes
    sanitized,    \* sanitizer: its outcome (Pending before the call)
    copy,         \* copy_to_container called on its own: its dest and whether it raised
    api_key_header, \* the X-API-Key header of the last request
    repo,         \* container id -> the files under /repo of that executor
    started,      \* SandboxDockerSession.start called on its own: its arguments and outcome
    turns,        \* server process -> the run_on_session request it is handling, step by step
    baseline      \* patch extractor -> what its /workdir/old holds, as the stepwise requests leave it

vars == <<containers, volumes, last, log, data, sanitized, copy, api_key_header, repo,
          started, turns, baseline>>

----------------------------------------------------------------------------
(* Bounds of the model *)

MaxContainers == 2
MaxVolumes == 1
MaxLifecycleCommands == 1
MaxCommands == 3
MaxMembers == 2
MaxNameLen == 3
MaxDestLen == 4
MaxWorkers == 2
MaxSessions == 2
MaxFailFastCommands == 2
MaxTurnCommands == 2
ModeBits == 12

----------------------------------------------------------------------------
(* Program constants *)

RUN_UID == 1000
RUN_GID == 1000
PermMask == 511        \* 0o777
SpecialBits == 3584    \* 0o7000
ReadAll == 292         \* 0o444
WriteUser == 128       \* 0o200
ExecAll == 73          \* 0o111

\* paths of the container are sequences of "/" and of the names between them
SANDBOX_ROOT == <<"/", "repo">>
WORKDIR_ROOT == <<"/", "workdir">>
SANDBOX_HOME == "/home/daiv-sandbox"
TYPE_PATCH_EXTRACTOR == "patch_extractor"
TYPE_CMD_EXECUTOR == "cmd_executor"
\* settings.RUNTIME and settings.GIT_IMAGE
RUNTIME == "runc"
GIT_IMAGE == "alpine/git:2.49.1"

----------------------------------------------------------------------------
(* Bit operations on naturals *)

RECURSIVE BitAnd(_, _)
BitAnd(a, b) ==
    IF a = 0 \/ b = 0 THEN 0
    ELSE (IF a % 2 = 1 /\ b % 2 = 1 THEN 1 ELSE 0) + 2 * BitAnd(a \div 2, b \div 2)

BitOr(a, b) == a + b - BitAnd(a, b)

BitClear(a, b) == a - BitAnd(a, b)

----------------------------------------------------------------------------
(* Member names: strings as sequences of characters *)

Chars == {".", "/", "a"}

RECURSIVE StringsUpTo(_)
StringsUpTo(n) ==
    IF n = 0 THEN {<< >>}
    ELSE LET shorter == StringsUpTo(n - 1)
         IN  shorter \cup {Append(s, c) : s \in {t \in shorter : Len(t) = n - 1}, c \in Chars}

StartsWith(s, p) == Len(s) >= Len(p) /\ SubSeq(s, 1, Len(p)) = p

\* while name.startswith("./"): name = name[2:]
RECURSIVE StripDotSlash(_)
StripDotSlash(name) ==
    IF StartsWith(name, <<".", "/">>)
    THEN StripDotSlash(SubSeq(name, 3, Len(name)))
    ELSE name

\* the components of a string between its "/" characters, empty ones included
RECURSIVE SplitSlash(_)
SplitSlash(s) ==
    IF s = << >> THEN << << >> >>
    ELSE LET rest == SplitSlash(Tail(s))
         IN  IF Head(s) = "/" THEN << << >> >> \o rest
             ELSE << <<Head(s)>> \o Head(rest) >> \o Tail(rest)

\* PurePosixPath(name).parts without the root: empty and "." components are dropped
PathParts(name) ==
    SelectSeq(SplitSlash(name), LAMBDA seg : seg # << >> /\ seg # <<".">>)

\* PurePosixPath(name).is_absolute()
IsAbsolute(name) == StartsWith(name, <<"/">>)

RECURSIVE JoinSlash(_)
JoinSlash(parts) ==
    IF parts = << >> THEN << >>
    ELSE IF Len(parts) = 1 THEN Head(parts)
    ELSE Head(parts) \o <<"/">> \o JoinSlash(Tail(parts))

\* str(PurePosixPath(name)) of a relative path
PathStr(name) == IF PathParts(name) = << >> THEN <<".">> ELSE JoinSlash(PathParts(name))

HasDotDot(parts) == \E i \in 1..Len(parts) : parts[i] = <<".", ".">>

Skip == [kind |-> "skip", name |-> << >>]
Reject == [kind |-> "error", name |-> << >>]

_normalize_tar_member_name(name) ==
    LET n == StripDotSlash(name)
    IN  IF n \in {<< >>, <<".">>} THEN Skip
        ELSE IF IsAbsolute(n) THEN Reject
        ELSE IF HasDotDot(PathParts(n)) THEN Reject
        ELSE IF PathStr(n) \in {<< >>, <<".">>} THEN Skip
        ELSE [kind |-> "ok", name |-> PathStr(n)]

----------------------------------------------------------------------------
(* Paths inside the container: workdir of a command, destination of an archive *)

\* None, or the empty string
NoPath == << >>

\* sessions.py 362 and 427: SANDBOX_ROOT when nothing is given, an absolute path as it
\* is, a relative one as (Path(SANDBOX_ROOT) / path).as_posix()
ResolvePath(path) ==
    IF path = NoPath THEN SANDBOX_ROOT
    ELSE IF IsAbsolute(path) THEN path
    ELSE IF PathParts(path) = << >> THEN SANDBOX_ROOT
    ELSE SANDBOX_ROOT \o <<"/">> \o JoinSlash(PathParts(path))

\* str.rstrip("/")
RECURSIVE RStripSlash(_)
RStripSlash(path) ==
    IF path # << >> /\ path[Len(path)] = "/"
    THEN RStripSlash(SubSeq(path, 1, Len(path) - 1))
    ELSE path

\* sessions.py 359-373: the directory copy_to_container extracts into, or its refusal
CopyDestination(dest) ==
    LET to_dir == ResolvePath(dest)
        to_dir_norm == IF RStripSlash(to_dir) = << >> THEN <<"/">> ELSE RStripSlash(to_dir)
    IN  IF to_dir_norm \in {<< >>, <<"/">>}
        THEN [refused |-> TRUE, dir |-> to_dir_norm]
        ELSE IF ~(\/ to_dir_norm \in {SANDBOX_ROOT, WORKDIR_ROOT}
                  \/ StartsWith(to_dir_norm, SANDBOX_ROOT \o <<"/">>)
                  \/ StartsWith(to_dir_norm, WORKDIR_ROOT \o <<"/">>))
        THEN [refused |-> TRUE, dir |-> to_dir_norm]
        ELSE [refused |-> FALSE, dir |-> to_dir_norm]

----------------------------------------------------------------------------
(* Tar members and the sanitizer *)

MemberTypes == {"REGTYPE", "DIRTYPE", "SYMTYPE", "LNKTYPE", "CHRTYPE", "BLKTYPE", "FIFOTYPE"}

isfile(member) == member.type = "REGTYPE"
isdir(member) == member.type = "DIRTYPE"

\* a+r,u+w added and the execute bits left as the input has them
SanitizedMode_ExecAsGiven(member) ==
    LET base_mode == BitClear(BitAnd(member.mode, PermMask), SpecialBits)
    IN  BitOr(BitOr(base_mode, ReadAll), WriteUser)

\* sessions.py 90-98: chmod a+rX,u+w with the special bits cleared
SanitizedMode(member) ==
    LET base_mode == BitClear(BitAnd(member.mode, PermMask), SpecialBits)
        mode == BitOr(BitOr(base_mode, ReadAll), WriteUser)
    IN  IF isdir(member) \/ BitAnd(base_mode, ExecAll) # 0
        THEN BitOr(mode, ExecAll)
        ELSE BitClear(mode, ExecAll)

\* the TarInfo built from the member's own name instead of the normalized one
OutInfo_RawName(member, normalized_name) ==
    [name |-> member.name,
     type |-> IF isdir(member) THEN "DIRTYPE" ELSE "REGTYPE",
     mode |-> SanitizedMode(member),
     uid |-> RUN_UID, gid |-> RUN_GID, uname |-> "", gname |-> "", mtime |-> 0,
     size |-> IF isdir(member) THEN 0 ELSE member.size,
     content |-> IF isdir(member) THEN "" ELSE member.content]

\* sessions.py 100-122: the TarInfo written for a kept member
OutInfo(member, normalized_name) ==
    [name |-> normalized_name,
     type |-> IF isdir(member) THEN "DIRTYPE" ELSE "REGTYPE",
     mode |-> SanitizedMode(member),
     uid |-> RUN_UID, gid |-> RUN_GID, uname |-> "", gname |-> "", mtime |-> 0,
     size |-> IF isdir(member) THEN 0 ELSE member.size,
     content |-> IF isdir(member) THEN "" ELSE member.content]

\* the loop writing each kept member ahead of the ones already written
RECURSIVE SanitizeMembers_Prepends(_, _)
SanitizeMembers_Prepends(members, out) ==
    IF members = << >> THEN [ok |-> TRUE, out |-> out]
    ELSE LET member == Head(members)
             normalized == _normalize_tar_member_name(member.name)
         IN  IF normalized.kind = "error" THEN [ok |-> FALSE, out |-> << >>]
             ELSE IF normalized.kind = "skip" THEN SanitizeMembers_Prepends(Tail(members), out)
             ELSE IF ~(isfile(member) \/ isdir(member)) THEN [ok |-> FALSE, out |-> << >>]
             ELSE SanitizeMembers_Prepends(Tail(members),
                                           <<OutInfo(member, normalized.name)>> \o out)

\* the loop of sessions.py 79-124 over the members left to read, out_tf so far
RECURSIVE SanitizeMembers(_, _)
SanitizeMembers(members, out) ==
    IF members = << >> THEN [ok |-> TRUE, out |-> out]
    ELSE LET member == Head(members)
             normalized == _normalize_tar_member_name(member.name)
         IN  IF normalized.kind = "error" THEN [ok |-> FALSE, out |-> << >>]
             ELSE IF normalized.kind = "skip" THEN SanitizeMembers(Tail(members), out)
             ELSE IF ~(isfile(member) \/ isdir(member)) THEN [ok |-> FALSE, out |-> << >>]
             ELSE SanitizeMembers(Tail(members), Append(out, OutInfo(member, normalized.name)))

\* the sanitizer giving an empty archive back where it should raise
_sanitize_archive_bytes_NeverRaises(archive) ==
    IF ~archive.readable THEN [ok |-> TRUE, out |-> << >>]
    ELSE [SanitizeMembers(archive.members, << >>) EXCEPT !.ok = TRUE]

\* An archive is the bytes of a tar (readable, with members) or bytes tarfile cannot open
_sanitize_archive_bytes(archive) ==
    IF ~archive.readable THEN [ok |-> FALSE, out |-> << >>]
    ELSE SanitizeMembers(archive.members, << >>)

----------------------------------------------------------------------------
(* Archives *)

InMember(name, type, mode) ==
    [name |-> name, type |-> type, mode |-> mode,
     uid |-> 0, gid |-> 0, uname |-> "root", gname |-> "root", mtime |-> 1, size |-> 1,
     content |-> IF type = "REGTYPE" THEN "old" ELSE ""]

Tar(members) == [present |-> TRUE, readable |-> TRUE, members |-> members]

\* request.archive is None
NoArchive == [present |-> FALSE, readable |-> FALSE, members |-> << >>]
\* bytes that are no tar archive
UnreadableArchive == [present |-> TRUE, readable |-> FALSE, members |-> << >>]
GoodArchive == Tar(<<InMember(<<"a">>, "REGTYPE", 420)>>)
SymlinkArchive == Tar(<<InMember(<<"a">>, "SYMTYPE", 511)>>)

RunArchives == {NoArchive, GoodArchive, SymlinkArchive, UnreadableArchive}

\* the members the sanitizer is tried on: every name up to MaxNameLen, every type
SanMembers == {InMember(n, t, 2536) : n \in StringsUpTo(MaxNameLen), t \in MemberTypes}

RECURSIVE SeqsUpTo(_, _)
SeqsUpTo(S, n) ==
    IF n = 0 THEN {<< >>}
    ELSE LET shorter == SeqsUpTo(S, n - 1)
         IN  shorter \cup {Append(s, x) : s \in {t \in shorter : Len(t) = n - 1}, x \in S}

SanInputs == {UnreadableArchive} \cup {Tar(ms) : ms \in SeqsUpTo(SanMembers, MaxMembers)}

Pending == [done |-> FALSE, ok |-> FALSE, out |-> << >>]

\* the server processes that serve the app, and one that handles no request
Workers == 1..MaxWorkers
Idle ==
    [pc |-> "idle", sid |-> 0, commands |-> << >>, fail_fast |-> FALSE, archive |-> NoArchive,
     results |-> << >>]

\* /workdir/old of a patch extractor: the archives extracted there since it was last purged,
\* and the requests that have purged or filled it since
NoBaseline == [old |-> {}, by |-> {}]

----------------------------------------------------------------------------
(* Workspaces: the regular files of a directory tree, by path *)

GitFile == <<".", "g", "i", "t", "/", "x">>
WorkPaths == {<<"a">>, <<"b">>, GitFile}
Contents == {"old", "new"}
Absent == ""

EmptyTree == [p \in WorkPaths |-> Absent]

\* sessions.py 375-392: the tree after put_archive of the sanitized members, the
\* directory purged first when clear_before_copy; a later member overwrites an earlier
Extract(tree, members, clear_before_copy) ==
    LET base == IF clear_before_copy THEN EmptyTree ELSE tree
        files(p) == {i \in 1..Len(members) : members[i].type = "REGTYPE" /\ members[i].name = p}
    IN  [p \in WorkPaths |->
            IF files(p) = {} THEN base[p]
            ELSE members[CHOOSE i \in files(p) : \A j \in files(p) : j <= i].content]

\* the path has a segment named .git: the excludes of scripts.py 14-17
InGitDir(p) == \E i \in 1..Len(SplitSlash(p)) : SplitSlash(p)[i] = <<".", "g", "i", "t">>

\* what git add -A takes from a work tree
Tracked(tree) == [p \in WorkPaths |-> IF InGitDir(p) THEN Absent ELSE tree[p]]

\* scripts.py 36: git diff -M --binary BASE..HEAD, one hunk for each path that differs
GitDiff(old, new) ==
    {[path |-> p, old |-> old[p], new |-> new[p]] : p \in {q \in WorkPaths : old[q] # new[q]}}

NO_CHANGES_MESSAGE == "nothing to commit, working tree clean"

\* scripts.py 1-37 run by /bin/sh on /workdir/old and /workdir/new; failure: the exec
\* ends non-zero for a reason of the engine or of the image
CMD_GIT_DIFF_EXTRACTOR_SCRIPT(old, new, failure) ==
    IF failure
    THEN [exit_code |-> 1, message |-> "fatal", diff |-> {}]
    ELSE IF Tracked(old) = EmptyTree
    THEN \* the baseline commit has nothing to commit, and set -e ends the script
         [exit_code |-> 1,
          message |-> "nothing to commit (create/copy files and use git add to track)",
          diff |-> {}]
    ELSE IF Tracked(old) = Tracked(new)
    THEN [exit_code |-> 1, message |-> NO_CHANGES_MESSAGE, diff |-> {}]
    ELSE [exit_code |-> 0, message |-> "", diff |-> GitDiff(Tracked(old), Tracked(new))]

\* base64.b64encode of the script's output, and what a client decodes from it
Base64Encode(output) == <<"base64", output>>
Base64Decode(text) == text[2]

NoPatch == [null |-> TRUE, base64 |-> Base64Encode({})]

----------------------------------------------------------------------------
(* The container engine *)

ContainerIds == 1..MaxContainers
VolumeIds == 1..MaxVolumes

NoContainer ==
    [state |-> "none", type |-> "", pe |-> 0, vol |-> 0, eph |-> FALSE, mount |-> 0]
RemovedContainer == [NoContainer EXCEPT !.state = "removed"]

Exists(cs, id) == cs[id].state \in {"running", "exited"}

FreshContainers(cs) == {id \in DOMAIN cs : cs[id].state = "none"}
\* a volume name the engine already holds taken for a fresh one
FreshVolumes_Any(vs) == DOMAIN vs

FreshVolumes(vs) == {v \in DOMAIN vs : vs[v] = "none"}
Min(S) == CHOOSE x \in S : \A y \in S : x <= y

VolumeInUse(cs, v) == \E id \in DOMAIN cs : Exists(cs, id) /\ cs[id].mount = v

\* what an exec_run returned, where the handler looks at it: exit code and output
NoResult == [exit_code |-> 0, message |-> "", diff |-> {}]

\* the labels of a container or of a volume; 0 and FALSE stand for a label that is absent
NoLabels == [type |-> "", pe |-> 0, vol |-> 0, eph |-> FALSE, managed |-> FALSE]

\* the keyword arguments of containers.run and of volumes.create; "" and {} stand for an
\* argument that is not passed
NoOptions ==
    [name |-> << >>, image |-> "", entrypoint |-> "", command |-> << >>, detach |-> FALSE,
     tty |-> FALSE, runtime |-> "", remove |-> FALSE, user |-> "", network_mode |-> "",
     volumes |-> {}, labels |-> NoLabels]

\* a call on the Docker client: what is called on which container or volume, and for an
\* exec_run its argv, user, working directory and environment, for a copy its directory,
\* for a run or a volume creation its keyword arguments
Call(op, target, arg, user) ==
    [op |-> op, target |-> target, arg |-> arg, user |-> user,
     argv |-> << >>, workdir |-> NoPath, environment |-> {}, path |-> NoPath,
     options |-> NoOptions, result |-> NoResult]

\* sessions.py 455-459: f"{RUN_UID}:{RUN_GID}"
SandboxUser == "1000:1000"

\* sessions.py 461-474
_get_exec_environment ==
    {<<"HOME", SANDBOX_HOME>>,
     <<"XDG_CACHE_HOME", SANDBOX_HOME \o "/.cache">>,
     <<"XDG_CONFIG_HOME", SANDBOX_HOME \o "/.config">>,
     <<"XDG_STATE_HOME", SANDBOX_HOME \o "/.local/state">>,
     <<"XDG_DATA_HOME", SANDBOX_HOME \o "/.local/share">>}

\* execute_command running the command as root
exec_run_AsRoot(id, command, command_workdir) ==
    [Call("exec", id, command, "root") EXCEPT
        !.argv = <<"/bin/sh", "-c", command>>,
        !.workdir = command_workdir,
        !.environment = _get_exec_environment]

\* sessions.py 431-436: the exec_run of execute_command
exec_run(id, command, command_workdir) ==
    [Call("exec", id, command, SandboxUser) EXCEPT
        !.argv = <<"/bin/sh", "-c", command>>,
        !.workdir = command_workdir,
        !.environment = _get_exec_environment]

\* an exec_run the server makes as root on a directory
RootExec(id, argv, path) == [Call("exec", id, argv[1], "root") EXCEPT !.argv = argv, !.path = path]

\* the restart giving back a container that lost its session labels
Restarted_DropsLabels(cs, id, restartOk) ==
    IF cs[id].state = "exited" /\ restartOk
    THEN [cs EXCEPT ![id].state = "running", ![id].pe = 0, ![id].eph = FALSE]
    ELSE cs

\* sessions.py 486-511: containers.get, and one restart when the status is not "running"
Restarted(cs, id, restartOk) ==
    IF cs[id].state = "exited" /\ restartOk THEN [cs EXCEPT ![id].state = "running"] ELSE cs

RestartLog(cs, id) ==
    IF cs[id].state = "exited" THEN <<Call("restart", id, "", "")>> ELSE << >>

\* _get_container returning whatever containers.get found, running or not
Resolves_IgnoreStatus(cs, id, restartOk) == Exists(cs, id)

\* whether _get_container returns a container (otherwise None)
Resolves(cs, id, restartOk) ==
    cs[id].state = "running" \/ (cs[id].state = "exited" /\ restartOk)

\* remove() without force: the engine refuses a running container
RemoveContainer_Unforced(cs, id) ==
    IF cs[id].state = "exited" THEN [cs EXCEPT ![id] = RemovedContainer] ELSE cs

\* sessions.py 304-309: remove(force=True), NotFound absorbed
RemoveContainer(cs, id) == IF Exists(cs, id) THEN [cs EXCEPT ![id] = RemovedContainer] ELSE cs

----------------------------------------------------------------------------
(* SandboxDockerSession operations used by the handlers *)

Commands == {"true", "false"}
ExitCode(command) == IF command = "false" THEN 1 ELSE 0

\* the commands that write to the workspace
WritingCommands ==
    {"echo new > a", "rm -f a", "echo new > b", "mkdir -p .git && echo new > .git/x"}

\* what a command run in /repo does to the files there
Effect(command, tree) ==
    CASE command = "echo new > a" -> [tree EXCEPT ![<<"a">>] = "new"]
      [] command = "rm -f a" -> [tree EXCEPT ![<<"a">>] = Absent]
      [] command = "echo new > b" -> [tree EXCEPT ![<<"b">>] = "new"]
      [] command = "mkdir -p .git && echo new > .git/x" -> [tree EXCEPT ![GitFile] = "new"]
      [] OTHER -> tree

\* the workspace after the commands that were executed, in order
RECURSIVE RunEffects(_, _)
RunEffects(results, tree) ==
    IF results = << >> THEN tree
    ELSE RunEffects(Tail(results), Effect(Head(results).command, tree))

\* sessions.py 412-453: the RunResult of a command run in the resolved workdir
execute_command(command, workdir) ==
    [command |-> command, exit_code |-> ExitCode(command), workdir |-> ResolvePath(workdir)]

\* the command loop with the fail_fast test ahead of results.append
RECURSIVE RunCommands_BreakBeforeAppend(_, _, _)
RunCommands_BreakBeforeAppend(commands, fail_fast, results) ==
    IF commands = << >> THEN results
    ELSE LET result == execute_command(Head(commands), NoPath)
         IN  IF fail_fast /\ result.exit_code # 0
             THEN results
             ELSE RunCommands_BreakBeforeAppend(Tail(commands), fail_fast,
                                                Append(results, result))

\* the command loop without its break
RECURSIVE RunCommands_NoBreak(_, _, _)
RunCommands_NoBreak(commands, fail_fast, results) ==
    IF commands = << >> THEN results
    ELSE RunCommands_NoBreak(Tail(commands), fail_fast,
                             Append(results, execute_command(Head(commands), NoPath)))

\* the command loop breaking on every failure, fail_fast or not
RECURSIVE RunCommands_AlwaysBreak(_, _, _)
RunCommands_AlwaysBreak(commands, fail_fast, results) ==
    IF commands = << >> THEN results
    ELSE LET result == execute_command(Head(commands), NoPath)
         IN  IF result.exit_code # 0
             THEN Append(results, result)
             ELSE RunCommands_AlwaysBreak(Tail(commands), fail_fast, Append(results, result))

\* main.py 187-193: the results of the command loop
RECURSIVE RunCommands(_, _, _)
RunCommands(commands, fail_fast, results) ==
    IF commands = << >> THEN results
    ELSE LET result == execute_command(Head(commands), NoPath)
         IN  IF fail_fast /\ result.exit_code # 0
             THEN Append(results, result)
             ELSE RunCommands(Tail(commands), fail_fast, Append(results, result))

ExecLog(id, results) ==
    [i \in 1..Len(results) |-> exec_run(id, results[i].command, results[i].workdir)]

\* sessions.py 375-408: the engine calls of copy_to_container once the archive is accepted
CopyLog(id, to_dir_norm, clear_before_copy) ==
    (IF clear_before_copy
     THEN <<RootExec(id, <<"/bin/sh", "-c", "rm -rf -- dir/* dir/.[!.]* dir/..?*">>, to_dir_norm)>>
     ELSE << >>)
    \o <<RootExec(id, <<"mkdir", "-p", "--">>, to_dir_norm),
         [Call("put_archive", id, "", "") EXCEPT !.path = to_dir_norm],
         RootExec(id, <<"chmod", "-R", "a+rX,u+w", "--">>, to_dir_norm),
         RootExec(id, <<"chown", "-R", SandboxUser, "--">>, to_dir_norm)>>

\* base_image is None
NoImage == "None"

\* the body of a start request; the one of NoStartRequest is that of any other request
StartSessionRequest(base_image, extract_patch, ephemeral, network_enabled) ==
    [base_image |-> base_image, extract_patch |-> extract_patch, ephemeral |-> ephemeral,
     network_enabled |-> network_enabled]
NoStartRequest == StartSessionRequest(NoImage, FALSE, FALSE, FALSE)

Exchange(op, sid, commands, fail_fast, archive, workdir, status, results, patch) ==
    [op |-> op, sid |-> sid, commands |-> commands, fail_fast |-> fail_fast,
     archive |-> archive, workdir |-> workdir, status |-> status, results |-> results,
     patch |-> patch, request |-> NoStartRequest]

NoExchange == Exchange("none", 0, << >>, FALSE, NoArchive, NoPath, 0, << >>, NoPatch)

----------------------------------------------------------------------------
(* The API key: main.py 74-88 *)

\* settings.API_KEY
API_KEY == "secret"

NoHeader == [present |-> FALSE, value |-> ""]
ApiKeyHeader(value) == [present |-> TRUE, value |-> value]

\* the dependency refusing a missing header only
get_api_key_AnyValue(header) == IF ~header.present THEN 403 ELSE 200

\* the status get_api_key leaves the request with: 403 raised, or 200 to go on
get_api_key(header) ==
    IF ~header.present THEN 403
    ELSE IF header.value # API_KEY THEN 403
    ELSE 200

\* the 403 raised by the dependency: the handler does not run, the body is not used
Forbidden(op, sid) ==
    /\ last' = Exchange(op, sid, << >>, FALSE, NoArchive, NoPath, 403, << >>, NoPatch)
    /\ log' = << >>
    /\ UNCHANGED <<containers, volumes, data, sanitized, copy, started, turns, baseline, repo>>

\* main.py 259-268: GET /-/health/
health(key, ping) ==
    /\ api_key_header' = key
    /\ last' = Exchange("health", 0, << >>, FALSE, NoArchive, NoPath,
                        IF ping THEN 200 ELSE 503, << >>, NoPatch)
    /\ log' = <<Call("ping", 0, "", "")>>
    /\ UNCHANGED <<containers, volumes, data, sanitized, copy, started, turns, baseline, repo>>

\* main.py 271-276: GET /-/version/
version(key) ==
    /\ api_key_header' = key
    /\ last' = Exchange("version", 0, << >>, FALSE, NoArchive, NoPath, 200, << >>, NoPatch)
    /\ log' = << >>
    /\ UNCHANGED <<containers, volumes, data, sanitized, copy, started, turns, baseline, repo>>

----------------------------------------------------------------------------
(* copy_to_container: sessions.py 338-410 *)

NoCopy == [done |-> FALSE, dest |-> NoPath, raised |-> FALSE]

\* the method called on the session of a running container with any dest
CopyToContainer(id, archive, dest, clear_before_copy) ==
    LET san == _sanitize_archive_bytes(archive)
        to == CopyDestination(dest)
        raised == ~san.ok \/ to.refused
    IN  /\ containers[id].state = "running"
        /\ copy' = [done |-> TRUE, dest |-> dest, raised |-> raised]
        /\ log' = IF raised THEN << >> ELSE CopyLog(id, to.dir, clear_before_copy)
        /\ repo' = IF raised \/ to.dir # SANDBOX_ROOT THEN repo
                   ELSE [repo EXCEPT ![id] = Extract(repo[id], san.out, clear_before_copy)]
        /\ UNCHANGED <<containers, volumes, last, data, sanitized, api_key_header, started, turns, baseline>>

----------------------------------------------------------------------------
(* start_session: main.py 104-158 *)

StartFailures == {"none", "patch_extractor_start", "executor_start", "executor_dirs"}

\* start_session stamping the patch extractor's id without the volume's name
cmd_executor_labels_NoVolume(extract_patch, peId, v, ephemeral) ==
    [type |-> TYPE_CMD_EXECUTOR,
     pe |-> IF extract_patch THEN peId ELSE 0,
     vol |-> 0,
     eph |-> ephemeral]

\* main.py 117-136: the labels of the executor; 0 stands for a label that is absent
cmd_executor_labels(extract_patch, peId, v, ephemeral) ==
    [type |-> TYPE_CMD_EXECUTOR,
     pe |-> IF extract_patch THEN peId ELSE 0,
     vol |-> IF extract_patch THEN v ELSE 0,
     eph |-> ephemeral]

\* main.py 122: f"daiv-sandbox-workdir-{uuid.uuid4()}", v standing for the uuid
VolumeName(v) == <<"daiv-sandbox-workdir-", v>>

\* the keyword arguments SandboxDockerSession.start is called with
NoKwargs == [user |-> "", network_mode |-> "", volumes |-> {}, labels |-> NoLabels]

\* _start_container passing the caller's user on to containers.run
_start_container_UserPassed(image, kwargs) ==
    [raised |-> FALSE,
     options |-> [NoOptions EXCEPT
                     !.image = image, !.entrypoint = "/bin/sh",
                     !.command = <<"-lc", "sleep 3600">>, !.detach = TRUE, !.tty = TRUE,
                     !.runtime = RUNTIME, !.remove = TRUE,
                     !.user = IF kwargs.user # "" THEN kwargs.user ELSE SandboxUser,
                     !.network_mode = kwargs.network_mode, !.volumes = kwargs.volumes,
                     !.labels = kwargs.labels]]

\* sessions.py 260-273: the ValueError on a user argument, or the arguments of
\* containers.run
_start_container(image, kwargs) ==
    IF kwargs.user # ""
    THEN [raised |-> TRUE, options |-> NoOptions]
    ELSE [raised |-> FALSE,
          options |-> [NoOptions EXCEPT
                          !.image = image, !.entrypoint = "/bin/sh",
                          !.command = <<"-lc", "sleep 3600">>, !.detach = TRUE, !.tty = TRUE,
                          !.runtime = RUNTIME, !.remove = TRUE, !.user = SandboxUser,
                          !.network_mode = kwargs.network_mode, !.volumes = kwargs.volumes,
                          !.labels = kwargs.labels]]

\* the container created only when its directories could be made
StartLog_RunWhenDirsOk(id, options, dirsOk) ==
    IF dirsOk
    THEN <<[Call("run", id, options.labels.type, options.user) EXCEPT !.options = options],
           RootExec(id, <<"mkdir", "-p", "--", "/repo", "/workdir", SANDBOX_HOME>>, NoPath),
           RootExec(id, <<"chown", SandboxUser, "--", "/repo", "/workdir", SANDBOX_HOME>>, NoPath)>>
    ELSE << >>

\* sessions.py 263-295: containers.run, then mkdir and chown of the sandbox directories as
\* root, the chown only when the mkdir succeeded
StartLog(id, options, dirsOk) ==
    <<[Call("run", id, options.labels.type, options.user) EXCEPT !.options = options],
      RootExec(id, <<"mkdir", "-p", "--", "/repo", "/workdir", SANDBOX_HOME>>, NoPath)>>
    \o (IF dirsOk
        THEN <<RootExec(id, <<"chown", SandboxUser, "--", "/repo", "/workdir", SANDBOX_HOME>>,
                        NoPath)>>
        ELSE << >>)

\* the patch extractor started on a network
patch_extractor_kwargs_Networked(v) ==
    [NoKwargs EXCEPT
        !.labels = [NoLabels EXCEPT !.type = TYPE_PATCH_EXTRACTOR],
        !.volumes = {[name |-> VolumeName(v), bind |-> <<"/", "workdir", "/", "new">>,
                      mode |-> "ro"]}]

\* main.py 125-130: the keyword arguments of the patch extractor's start
patch_extractor_kwargs(v) ==
    [NoKwargs EXCEPT
        !.labels = [NoLabels EXCEPT !.type = TYPE_PATCH_EXTRACTOR],
        !.network_mode = "none",
        !.volumes = {[name |-> VolumeName(v), bind |-> <<"/", "workdir", "/", "new">>,
                      mode |-> "ro"]}]

\* the executor mounting the volume at /workdir/new as the patch extractor does
cmd_executor_kwargs_MountsNew(labels, v, network_enabled) ==
    [NoKwargs EXCEPT
        !.labels = [NoLabels EXCEPT !.type = labels.type, !.pe = labels.pe,
                                    !.vol = labels.vol, !.eph = labels.eph],
        !.network_mode = IF ~network_enabled THEN "none" ELSE "",
        !.volumes = IF v # 0
                    THEN {[name |-> VolumeName(v), bind |-> <<"/", "workdir", "/", "new">>,
                           mode |-> "ro"]}
                    ELSE {}]

\* main.py 138-157: the keyword arguments of the executor's start
cmd_executor_kwargs(labels, v, network_enabled) ==
    [NoKwargs EXCEPT
        !.labels = [NoLabels EXCEPT !.type = labels.type, !.pe = labels.pe,
                                    !.vol = labels.vol, !.eph = labels.eph],
        !.network_mode = IF ~network_enabled THEN "none" ELSE "",
        !.volumes = IF v # 0
                    THEN {[name |-> VolumeName(v), bind |-> SANDBOX_ROOT, mode |-> "rw"]}
                    ELSE {}]

NotStarted == [done |-> FALSE, raised |-> FALSE, id |-> 0, kwargs |-> NoKwargs]

\* sessions.py 195-212: SandboxDockerSession.start called with any keyword arguments
StartContainer(image, kwargs) ==
    LET start == _start_container(image, kwargs)
        id == Min(FreshContainers(containers))
    IN  /\ FreshContainers(containers) # {}
        /\ started' = [done |-> TRUE, raised |-> start.raised,
                       id |-> IF start.raised THEN 0 ELSE id, kwargs |-> kwargs]
        /\ log' = IF start.raised THEN << >> ELSE StartLog(id, start.options, TRUE)
        /\ containers' = IF start.raised THEN containers
                         ELSE [containers EXCEPT ![id] =
                                  [state |-> "running", type |-> kwargs.labels.type,
                                   pe |-> kwargs.labels.pe, vol |-> kwargs.labels.vol,
                                   eph |-> kwargs.labels.eph, mount |-> 0]]
        /\ UNCHANGED <<volumes, last, data, sanitized, copy, api_key_header, repo, turns, baseline>>

StartSession(key, base_image, extract_patch, ephemeral, network_enabled, failAt) ==
    /\ api_key_header' = key
    /\ IF get_api_key(key) # 200
         THEN Forbidden("start", 0)
         ELSE /\ FreshContainers(containers) # {}
              /\ extract_patch =>
                    /\ FreshVolumes(volumes) # {}
                    /\ Cardinality(FreshContainers(containers)) >= 2
              /\ ~extract_patch => failAt # "patch_extractor_start"
              /\ LET v == IF extract_patch THEN Min(FreshVolumes(volumes)) ELSE 0
                     peId == IF extract_patch THEN Min(FreshContainers(containers)) ELSE 0
                     peUp == extract_patch /\ failAt # "patch_extractor_start"
                     peStart == _start_container(GIT_IMAGE, patch_extractor_kwargs(v))
                     cs1 == IF peUp
                            THEN [containers EXCEPT ![peId] =
                                     [state |-> "running", type |-> TYPE_PATCH_EXTRACTOR,
                                      pe |-> 0, vol |-> 0, eph |-> FALSE, mount |-> v]]
                            ELSE containers
                     execId == Min(FreshContainers(cs1))
                     \* _pull_image of no image raises before containers.run
                     execUp == failAt \in {"none", "executor_dirs"} /\ base_image # NoImage
                     labels == cmd_executor_labels(extract_patch, peId, v, ephemeral)
                     execStart == _start_container(base_image,
                                                   cmd_executor_kwargs(labels, v, network_enabled))
                     cs2 == IF execUp
                            THEN [cs1 EXCEPT ![execId] =
                                     [state |-> "running", type |-> labels.type,
                                      pe |-> labels.pe, vol |-> labels.vol, eph |-> labels.eph,
                                      mount |-> v]]
                            ELSE cs1
                     ok == failAt = "none" /\ base_image # NoImage
                 IN  /\ containers' = cs2
                     /\ volumes' = IF extract_patch THEN [volumes EXCEPT ![v] = "present"] ELSE volumes
                     /\ log' = (IF extract_patch
                                THEN <<[Call("create_volume", v, "", "") EXCEPT
                                           !.options = [NoOptions EXCEPT
                                              !.name = VolumeName(v),
                                              !.labels = [NoLabels EXCEPT !.managed = TRUE]]]>>
                                ELSE << >>)
                               \o (IF peUp THEN StartLog(peId, peStart.options, TRUE) ELSE << >>)
                               \o (IF execUp
                                   THEN StartLog(execId, execStart.options, failAt = "none")
                                   ELSE << >>)
                     /\ last' = [Exchange("start", IF ok THEN execId ELSE 0, << >>, FALSE,
                                          NoArchive, NoPath, IF ok THEN 200 ELSE 500, << >>,
                                          NoPatch)
                                    EXCEPT !.request = StartSessionRequest(base_image,
                                                          extract_patch, ephemeral,
                                                          network_enabled)]
              /\ UNCHANGED <<data, sanitized, copy, started, turns, baseline, repo>>

----------------------------------------------------------------------------
(* run_on_session: main.py 162-224 *)

\* the patch builder taking every non-zero exit of the script for a failure
PatchStep_AnyFailureFails(cs, peId, archive, peRestartOk, scriptFails, new) ==
    LET old == Extract(EmptyTree, _sanitize_archive_bytes(archive).out, TRUE)
        patch_result == CMD_GIT_DIFF_EXTRACTOR_SCRIPT(old, new, scriptFails)
        failed == patch_result.exit_code # 0
    IN  IF ~Resolves(cs, peId, peRestartOk)
        THEN \* patch_extractor.container is None: execute_command raises
             [status |-> 500, patch |-> NoPatch, cs |-> Restarted(cs, peId, peRestartOk),
              log |-> RestartLog(cs, peId)]
        ELSE [status |-> IF failed THEN 500 ELSE 200,
              patch |-> IF failed THEN NoPatch
                        ELSE IF \/ patch_result.message = NO_CHANGES_MESSAGE
                                \/ (patch_result.message = "" /\ patch_result.diff = {})
                        THEN NoPatch
                        ELSE [null |-> FALSE, base64 |-> Base64Encode(patch_result.diff)],
              cs |-> Restarted(cs, peId, peRestartOk),
              log |-> RestartLog(cs, peId)
                      \o <<exec_run(peId, "rm -rf /workdir/old /workdir/meta", SANDBOX_ROOT),
                           exec_run(peId, "mkdir -p /workdir/old", SANDBOX_ROOT)>>
                      \o CopyLog(peId, CopyDestination(WORKDIR_ROOT \o <<"/", "old", "/">>).dir,
                                 TRUE)
                      \o <<[exec_run(peId, "CMD_GIT_DIFF_EXTRACTOR_SCRIPT", WORKDIR_ROOT)
                             EXCEPT !.result = patch_result]>>]

\* main.py 195-222: the patch builder, once the commands have run; new is the volume
\* the patch extractor mounts at /workdir/new
PatchStep(cs, peId, archive, peRestartOk, scriptFails, new) ==
    LET old == Extract(EmptyTree, _sanitize_archive_bytes(archive).out, TRUE)
        patch_result == CMD_GIT_DIFF_EXTRACTOR_SCRIPT(old, new, scriptFails)
        failed == patch_result.exit_code # 0 /\ patch_result.message # NO_CHANGES_MESSAGE
    IN  IF ~Resolves(cs, peId, peRestartOk)
        THEN \* patch_extractor.container is None: execute_command raises
             [status |-> 500, patch |-> NoPatch, cs |-> Restarted(cs, peId, peRestartOk),
              log |-> RestartLog(cs, peId)]
        ELSE [status |-> IF failed THEN 500 ELSE 200,
              patch |-> IF failed THEN NoPatch
                        ELSE IF \/ patch_result.message = NO_CHANGES_MESSAGE
                                \/ (patch_result.message = "" /\ patch_result.diff = {})
                        THEN NoPatch
                        ELSE [null |-> FALSE, base64 |-> Base64Encode(patch_result.diff)],
              cs |-> Restarted(cs, peId, peRestartOk),
              log |-> RestartLog(cs, peId)
                      \o <<exec_run(peId, "rm -rf /workdir/old /workdir/meta", SANDBOX_ROOT),
                           exec_run(peId, "mkdir -p /workdir/old", SANDBOX_ROOT)>>
                      \o CopyLog(peId, CopyDestination(WORKDIR_ROOT \o <<"/", "old", "/">>).dir,
                                 TRUE)
                      \o <<[exec_run(peId, "CMD_GIT_DIFF_EXTRACTOR_SCRIPT", WORKDIR_ROOT)
                             EXCEPT !.result = patch_result]>>]

\* run_on_session building the patch ahead of the command loop
HandlerCalls_BuildsFirst(resolved, copied, executed, built) ==
    resolved \o copied \o built \o executed

\* main.py 172-208: the engine calls of one request, in the order the handler makes them
HandlerCalls(resolved, copied, executed, built) ==
    resolved \o copied \o executed \o built

\* run_on_session never asking for the purge
ephemeral_session_Never(c) == FALSE

\* main.py 182: the ephemeral label of the executor is "1"
ephemeral_session(c) == c.eph

\* the patch builder run on every turn of a session that records a patch extractor
BuildsPatch_LabelOnly(archive, c) == c.pe # 0

\* main.py 195-197: request.archive and the patch extractor id of the executor's label
BuildsPatch(archive, c) == archive.present /\ c.pe # 0

RunOnSession(key, session_id, commands, archive, fail_fast, workdir, restartOk, peRestartOk, scriptFails) ==
    /\ api_key_header' = key
    /\ IF get_api_key(key) # 200
         THEN Forbidden("run", session_id)
         ELSE LET cs1 == Restarted(containers, session_id, restartOk)
                  log1 == RestartLog(containers, session_id)
                  c == cs1[session_id]
                  extracted == IF archive.present
                               THEN Extract(repo[session_id],
                                            _sanitize_archive_bytes(archive).out,
                                            ephemeral_session(c))
                               ELSE repo[session_id]
                  results == RunCommands(commands, fail_fast, << >>)
                  tree == RunEffects(results, extracted)
                  copied == IF archive.present
                            THEN CopyLog(session_id, CopyDestination(NoPath).dir,
                                         ephemeral_session(c))
                            ELSE << >>
                  executed == ExecLog(session_id, results)
                  patching == BuildsPatch(archive, c)
                  p == PatchStep(cs1, c.pe, archive, peRestartOk, scriptFails, tree)
              IN  /\ UNCHANGED <<volumes, data, sanitized, copy, started, turns, baseline>>
                  /\ IF ~Resolves(containers, session_id, restartOk)
                     THEN \* main.py 174-175
                          /\ containers' = cs1
                          /\ log' = log1
                          /\ repo' = repo
                          /\ last' = Exchange("run", session_id, commands, fail_fast, archive,
                                              workdir, 404, << >>, NoPatch)
                     ELSE IF archive.present /\ ~_sanitize_archive_bytes(archive).ok
                     THEN \* the ValueError of copy_to_container reaches the server: 500
                          /\ containers' = cs1
                          /\ log' = log1
                          /\ repo' = repo
                          /\ last' = Exchange("run", session_id, commands, fail_fast, archive,
                                              workdir, 500, << >>, NoPatch)
                     ELSE IF patching
                     THEN /\ containers' = p.cs
                          /\ log' = HandlerCalls(log1, copied, executed, p.log)
                          /\ repo' = [repo EXCEPT ![session_id] = tree]
                          /\ last' = Exchange("run", session_id, commands, fail_fast, archive,
                                              workdir, p.status,
                                              IF p.status = 200 THEN results ELSE << >>, p.patch)
                     ELSE /\ containers' = cs1
                          /\ log' = HandlerCalls(log1, copied, executed, << >>)
                          /\ repo' = [repo EXCEPT ![session_id] = tree]
                          /\ last' = Exchange("run", session_id, commands, fail_fast, archive,
                                              workdir, 200, results, NoPatch)

----------------------------------------------------------------------------
(* close_session: main.py 228-256 *)

\* main.py 247-254: what volumes.get(name).remove(force=False) comes to.
\* volumeError: the engine refuses (the volume is in use elsewhere, or another error)
VolumeRemoval(vs, cs, v, volumeError) ==
    IF vs[v] # "present" THEN "not_found"
    ELSE IF VolumeInUse(cs, v) \/ volumeError THEN "failed"
    ELSE "removed"

\* close_session removing the volume before the containers that mount it
CloseCalls_VolumeFirst(session_id, c) ==
    (IF c.vol # 0 THEN <<Call("remove_volume", c.vol, "", "")>> ELSE << >>)
    \o (IF c.pe # 0
        THEN <<Call("get", c.pe, "", ""), Call("remove_container", c.pe, "", "")>>
        ELSE << >>)
    \o <<Call("remove_container", session_id, "", "")>>

\* main.py 238-254: the engine calls of close_session, in the order it makes them
CloseCalls(session_id, c) ==
    (IF c.pe # 0
     THEN <<Call("get", c.pe, "", ""), Call("remove_container", c.pe, "", "")>>
     ELSE << >>)
    \o <<Call("remove_container", session_id, "", "")>>
    \o (IF c.vol # 0 THEN <<Call("remove_volume", c.vol, "", "")>> ELSE << >>)

\* the engine after the calls, each made on what the one before left; eng = [cs, vs, log]
RECURSIVE Teardown(_, _, _, _)
Teardown(calls, eng, peRestartOk, volumeError) ==
    IF calls = << >> THEN eng
    ELSE LET call == Head(calls)
             next ==
                IF call.op = "get"
                THEN [eng EXCEPT !.cs = Restarted(eng.cs, call.target, peRestartOk),
                                 !.log = eng.log \o RestartLog(eng.cs, call.target)]
                ELSE IF call.op = "remove_container"
                THEN [eng EXCEPT !.cs = RemoveContainer(eng.cs, call.target),
                                 !.log = Append(eng.log, call)]
                ELSE LET outcome == VolumeRemoval(eng.vs, eng.cs, call.target, volumeError)
                     IN  [cs |-> eng.cs,
                          vs |-> IF outcome = "removed"
                                 THEN [eng.vs EXCEPT ![call.target] = "removed"] ELSE eng.vs,
                          log |-> Append(eng.log, [call EXCEPT !.arg = outcome])]
         IN  Teardown(Tail(calls), next, peRestartOk, volumeError)

\* close_session letting a failed removal of the volume reach the client
CloseStatus_Propagates(volumeOutcomes) ==
    IF volumeOutcomes \subseteq {"removed"} THEN 204 ELSE 500

\* main.py 246-256: no outcome of the volume's removal changes the response
CloseStatus(volumeOutcomes) == 204

VolumeOutcomesOf(calls) ==
    {calls[i].arg : i \in {j \in 1..Len(calls) : calls[j].op = "remove_volume"}}

\* the files of a container go with it
Kept(cs, trees) == [id \in DOMAIN cs |-> IF Exists(cs, id) THEN trees[id] ELSE EmptyTree]

CloseSession(key, session_id, restartOk, peRestartOk, volumeError) ==
    /\ api_key_header' = key
    /\ IF get_api_key(key) # 200
         THEN Forbidden("close", session_id)
         ELSE LET cs1 == Restarted(containers, session_id, restartOk)
                  log1 == RestartLog(containers, session_id)
                  c == cs1[session_id]
                  done == Teardown(CloseCalls(session_id, c),
                                   [cs |-> cs1, vs |-> volumes, log |-> log1],
                                   peRestartOk, volumeError)
              IN  /\ UNCHANGED <<data, sanitized, copy, started, turns, baseline>>
                  /\ IF ~Resolves(containers, session_id, restartOk)
                     THEN \* cmd_executor.container is None: get_label raises AttributeError
                          /\ containers' = cs1
                          /\ volumes' = volumes
                          /\ log' = log1
                          /\ repo' = repo
                          /\ last' = Exchange("close", session_id, << >>, FALSE, NoArchive, NoPath, 500, << >>, NoPatch)
                     ELSE /\ containers' = done.cs
                          /\ volumes' = done.vs
                          /\ repo' = Kept(done.cs, repo)
                          /\ log' = done.log
                          /\ last' = Exchange("close", session_id, << >>, FALSE, NoArchive, NoPath,
                                              CloseStatus(VolumeOutcomesOf(done.log)), << >>, NoPatch)

----------------------------------------------------------------------------
(* The engine's own steps *)

\* the entrypoint's sleep ends, or the container crashes: remove=True takes it away
EngineExit(id) ==
    /\ Exists(containers, id)
    /\ containers' = [containers EXCEPT ![id] = RemovedContainer]
    /\ repo' = [repo EXCEPT ![id] = EmptyTree]
    /\ UNCHANGED <<volumes, last, log, data, sanitized, copy, started, turns, baseline, api_key_header>>

\* the container leaves the running state without being removed yet
EngineStop(id) ==
    /\ containers[id].state = "running"
    /\ containers' = [containers EXCEPT ![id].state = "exited"]
    /\ UNCHANGED <<volumes, last, log, data, sanitized, copy, started, turns, baseline, api_key_header, repo>>

----------------------------------------------------------------------------
(* The service *)

\* the command lists of a request: short ones where sessions come and go (Spec),
\* longer ones on sessions that stay (SpecRun)
LifecycleCommandLists == SeqsUpTo(Commands, MaxLifecycleCommands)
CommandLists == SeqsUpTo(Commands, MaxCommands)

Init ==
    /\ containers = [id \in ContainerIds |-> NoContainer]
    /\ volumes = [v \in VolumeIds |-> "none"]
    /\ last = NoExchange
    /\ log = << >>
    /\ data = NoArchive
    /\ sanitized = Pending
    /\ copy = NoCopy
    /\ started = NotStarted
    /\ turns = [w \in Workers |-> Idle]
    /\ baseline = [id \in DOMAIN containers |-> NoBaseline]
    /\ api_key_header = NoHeader
    /\ repo = [id \in ContainerIds |-> EmptyTree]

\* the outcomes a request can meet: a restart is tried only on a stopped container,
\* the diff script runs only when the patch builder does
RestartOutcomes(id) == IF containers[id].state = "exited" THEN BOOLEAN ELSE {TRUE}
PeRestartOutcomes(id) ==
    IF containers[id].pe # 0 /\ containers[containers[id].pe].state = "exited"
    THEN BOOLEAN ELSE {TRUE}
VolumeOutcomes(id) == IF containers[id].vol # 0 THEN BOOLEAN ELSE {FALSE}
ScriptOutcomes(id, archive) ==
    IF archive.present /\ _sanitize_archive_bytes(archive).ok /\ containers[id].pe # 0
    THEN BOOLEAN ELSE {FALSE}

\* the header of a client that holds the key
ValidKey == ApiKeyHeader(API_KEY)

Next ==
    \/ \E extract_patch \in BOOLEAN, ephemeral \in BOOLEAN, failAt \in StartFailures :
          StartSession(ValidKey, "alpine:latest", extract_patch, ephemeral, TRUE, failAt)
    \/ \E session_id \in ContainerIds, commands \in LifecycleCommandLists,
          archive \in RunArchives :
          \E restartOk \in RestartOutcomes(session_id),
             peRestartOk \in PeRestartOutcomes(session_id),
             scriptFails \in ScriptOutcomes(session_id, archive) :
             RunOnSession(ValidKey, session_id, commands, archive, FALSE, NoPath, restartOk,
                          peRestartOk, scriptFails)
    \/ \E session_id \in ContainerIds :
          \E restartOk \in RestartOutcomes(session_id),
             peRestartOk \in PeRestartOutcomes(session_id),
             volumeError \in VolumeOutcomes(session_id) :
             CloseSession(ValidKey, session_id, restartOk, peRestartOk, volumeError)
    \/ \E id \in ContainerIds : EngineExit(id)
    \/ \E id \in ContainerIds : EngineStop(id)

Spec == Init /\ [][Next]_vars

----------------------------------------------------------------------------
(* run_on_session on sessions that have been started: every bounded request *)

\* the engine after one start_session that succeeded (main.py 104-158)
Started(extract_patch, ephemeral) ==
    IF extract_patch
    THEN [id \in ContainerIds |->
            IF id = 1 THEN [state |-> "running", type |-> TYPE_PATCH_EXTRACTOR,
                            pe |-> 0, vol |-> 0, eph |-> FALSE, mount |-> 1]
            ELSE IF id = 2 THEN [state |-> "running", type |-> TYPE_CMD_EXECUTOR,
                                 pe |-> 1, vol |-> 1, eph |-> ephemeral, mount |-> 1]
            ELSE NoContainer]
    ELSE [id \in ContainerIds |->
            IF id = 1 THEN [state |-> "running", type |-> TYPE_CMD_EXECUTOR,
                            pe |-> 0, vol |-> 0, eph |-> ephemeral, mount |-> 0]
            ELSE NoContainer]

InitRun ==
    /\ \E extract_patch \in BOOLEAN, ephemeral \in BOOLEAN :
          /\ containers = Started(extract_patch, ephemeral)
          /\ volumes = [v \in VolumeIds |-> IF extract_patch /\ v = 1 THEN "present" ELSE "none"]
    /\ last = NoExchange
    /\ log = << >>
    /\ data = NoArchive
    /\ sanitized = Pending
    /\ copy = NoCopy
    /\ started = NotStarted
    /\ turns = [w \in Workers |-> Idle]
    /\ baseline = [id \in DOMAIN containers |-> NoBaseline]
    /\ api_key_header = NoHeader
    /\ repo = [id \in ContainerIds |-> EmptyTree]

NextRun ==
    \E session_id \in ContainerIds, commands \in CommandLists,
       archive \in {NoArchive, GoodArchive}, fail_fast \in BOOLEAN :
       \E restartOk \in RestartOutcomes(session_id),
          peRestartOk \in PeRestartOutcomes(session_id),
          scriptFails \in ScriptOutcomes(session_id, archive) :
          RunOnSession(ValidKey, session_id, commands, archive, fail_fast, NoPath, restartOk,
                       peRestartOk, scriptFails)

SpecRun == InitRun /\ [][NextRun]_vars

----------------------------------------------------------------------------
(* run_on_session on started sessions, with the request's workdir field *)

\* request.workdir: absent, relative, absolute
Workdirs == {NoPath, <<"a">>, <<"/", "tmp">>}

NextWorkdir ==
    \E session_id \in ContainerIds, commands \in LifecycleCommandLists,
       archive \in RunArchives, fail_fast \in BOOLEAN, workdir \in Workdirs :
       \E restartOk \in RestartOutcomes(session_id),
          peRestartOk \in PeRestartOutcomes(session_id),
          scriptFails \in ScriptOutcomes(session_id, archive) :
          RunOnSession(ValidKey, session_id, commands, archive, fail_fast, workdir, restartOk,
                       peRestartOk, scriptFails)

SpecWorkdir == InitRun /\ [][NextWorkdir]_vars

----------------------------------------------------------------------------
(* The sanitizer on its own: every bounded archive, one call *)

Sanitize ==
    /\ ~sanitized.done
    /\ sanitized' = [done |-> TRUE, ok |-> _sanitize_archive_bytes(data).ok,
                     out |-> _sanitize_archive_bytes(data).out]
    /\ UNCHANGED <<containers, volumes, last, log, data, copy, started, turns, baseline, api_key_header, repo>>

InitSan ==
    /\ containers = [id \in ContainerIds |-> NoContainer]
    /\ volumes = [v \in VolumeIds |-> "none"]
    /\ last = NoExchange
    /\ log = << >>
    /\ data \in SanInputs
    /\ sanitized = Pending
    /\ copy = NoCopy
    /\ started = NotStarted
    /\ turns = [w \in Workers |-> Idle]
    /\ baseline = [id \in DOMAIN containers |-> NoBaseline]
    /\ api_key_header = NoHeader
    /\ repo = [id \in ContainerIds |-> EmptyTree]

NextSan == Sanitize

SpecSan == InitSan /\ [][NextSan]_vars

----------------------------------------------------------------------------
(* The sanitizer's mode policy: one file or directory, every mode of ModeBits bits *)

Modes == 0..(2^ModeBits - 1)

ModeInputs == {Tar(<<InMember(<<"a">>, t, m)>>) : t \in {"REGTYPE", "DIRTYPE"}, m \in Modes}

InitMode ==
    /\ containers = [id \in ContainerIds |-> NoContainer]
    /\ volumes = [v \in VolumeIds |-> "none"]
    /\ last = NoExchange
    /\ log = << >>
    /\ data \in ModeInputs
    /\ sanitized = Pending
    /\ copy = NoCopy
    /\ started = NotStarted
    /\ turns = [w \in Workers |-> Idle]
    /\ baseline = [id \in DOMAIN containers |-> NoBaseline]
    /\ api_key_header = NoHeader
    /\ repo = [id \in ContainerIds |-> EmptyTree]

NextMode == Sanitize

SpecMode == InitMode /\ [][NextMode]_vars

----------------------------------------------------------------------------
(* copy_to_container on a running container: every bounded dest *)

\* what stands between the "/" of a dest
DestNames == {"repo", "workdir", "..", "a"}

\* strings cut at their "/": no two names side by side
Dests ==
    {d \in SeqsUpTo(DestNames \cup {"/"}, MaxDestLen) :
        \A i \in 1..(Len(d) - 1) : d[i] = "/" \/ d[i + 1] = "/"}

NextCopy ==
    \E dest \in Dests, archive \in {GoodArchive, SymlinkArchive},
       clear_before_copy \in BOOLEAN :
       CopyToContainer(1, archive, dest, clear_before_copy)

SpecCopy == InitRun /\ [][NextCopy]_vars

----------------------------------------------------------------------------
(* Every endpoint, asked with and without the key *)

\* X-API-Key: missing, wrong, right
Headers == {NoHeader, ApiKeyHeader("invalid_key"), ApiKeyHeader(API_KEY)}

NextAuth ==
    \/ \E key \in Headers, extract_patch \in BOOLEAN, ephemeral \in BOOLEAN :
          StartSession(key, "alpine:latest", extract_patch, ephemeral, TRUE, "none")
    \/ \E key \in Headers, session_id \in ContainerIds, commands \in LifecycleCommandLists,
          archive \in {NoArchive, GoodArchive} :
          \E scriptFails \in ScriptOutcomes(session_id, archive) :
             RunOnSession(key, session_id, commands, archive, FALSE, NoPath, TRUE, TRUE,
                          scriptFails)
    \/ \E key \in Headers, session_id \in ContainerIds :
          CloseSession(key, session_id, TRUE, TRUE, FALSE)
    \/ \E key \in Headers, ping \in BOOLEAN : health(key, ping)
    \/ \E key \in Headers : version(key)

SpecAuth == Init /\ [][NextAuth]_vars

----------------------------------------------------------------------------
(* start_session with every body, and close_session *)

Images == {NoImage, "alpine:latest"}

NextStart ==
    \/ \E base_image \in Images, extract_patch \in BOOLEAN, ephemeral \in BOOLEAN,
          network_enabled \in BOOLEAN, failAt \in StartFailures :
          StartSession(ValidKey, base_image, extract_patch, ephemeral, network_enabled, failAt)
    \/ \E session_id \in ContainerIds :
          CloseSession(ValidKey, session_id, TRUE, TRUE, FALSE)

SpecStart == Init /\ [][NextStart]_vars

----------------------------------------------------------------------------
(* SandboxDockerSession.start with and without a user argument *)

Users == {"", "None", "root", "0:0", "1000:1000"}

StartKwargs ==
    {[NoKwargs EXCEPT !.user = user, !.network_mode = network_mode,
                      !.labels = [NoLabels EXCEPT !.type = type, !.eph = ephemeral]] :
        user \in Users, network_mode \in {"", "none"},
        type \in {TYPE_CMD_EXECUTOR, TYPE_PATCH_EXTRACTOR}, ephemeral \in BOOLEAN}

NextStartContainer ==
    \E image \in {"alpine:latest", GIT_IMAGE}, kwargs \in StartKwargs :
       StartContainer(image, kwargs)

SpecStartContainer == Init /\ [][NextStartContainer]_vars

----------------------------------------------------------------------------
(* Turns with an archive and commands that write to the workspace *)

PatchArchives ==
    {NoArchive,
     Tar(<<InMember(<<"a">>, "REGTYPE", 420)>>),
     Tar(<<InMember(<<"a">>, "REGTYPE", 420), InMember(<<"b">>, "REGTYPE", 420)>>),
     Tar(<<InMember(<<"d">>, "DIRTYPE", 493)>>)}

PatchCommandLists == SeqsUpTo({"true"} \cup WritingCommands, MaxLifecycleCommands)

\* the sessions a client knows of: start_session answers with the executor's id
Executors == {id \in ContainerIds : containers[id].type = TYPE_CMD_EXECUTOR}

NextPatch ==
    \E session_id \in Executors, commands \in PatchCommandLists, archive \in PatchArchives :
       RunOnSession(ValidKey, session_id, commands, archive, FALSE, NoPath, TRUE, TRUE, FALSE)

SpecPatch == InitRun /\ [][NextPatch]_vars

----------------------------------------------------------------------------
(* Turns on sessions whose containers the engine may stop or remove *)

NextBuilder ==
    \/ \E session_id \in ContainerIds, commands \in {<< >>, <<"echo new > a">>},
          archive \in {NoArchive, GoodArchive, SymlinkArchive} :
          \E restartOk \in RestartOutcomes(session_id),
             peRestartOk \in PeRestartOutcomes(session_id),
             scriptFails \in ScriptOutcomes(session_id, archive) :
             RunOnSession(ValidKey, session_id, commands, archive, FALSE, NoPath, restartOk,
                          peRestartOk, scriptFails)
    \/ \E id \in ContainerIds : EngineExit(id)
    \/ \E id \in ContainerIds : EngineStop(id)

SpecBuilder == InitRun /\ [][NextBuilder]_vars

----------------------------------------------------------------------------
(* Properties *)

\* the client commands the last request had executed in container id, in order
ClientExecs(l, id) ==
    LET execs == SelectSeq(l, LAMBDA e : e.op = "exec" /\ e.target = id /\ e.user = SandboxUser)
    IN  [i \in 1..Len(execs) |-> execs[i].arg]

ResultCommands(results) == [i \in 1..Len(results) |-> results[i].command]

RunAnswered == last.op = "run" /\ last.status = 200

\* C1: close_session is idempotent: every close_session call, on an id whose executor
\* exists or not (never created, already closed, removed by the engine), returns 204.
C1_CloseAlways204 == last.op = "close" => last.status = 204

\* C2 as stated: results is never longer than commands, and it is as long exactly when
\* fail_fast is false or every executed command had exit code 0.
C2_LengthIffAllZero ==
    RunAnswered =>
        /\ Len(last.results) <= Len(last.commands)
        /\ Len(last.results) = Len(last.commands)
              <=> (~last.fail_fast
                    \/ \A i \in 1..Len(last.results) : last.results[i].exit_code = 0)

\* C2 amended: results is never longer than commands, and it is as long exactly when
\* fail_fast is false or no executed command other than the last command of the request
\* had a non-zero exit code.
C2_LengthIffNoEarlierFailure ==
    RunAnswered =>
        /\ Len(last.results) <= Len(last.commands)
        /\ Len(last.results) = Len(last.commands)
              <=> (~last.fail_fast
                    \/ \A i \in 1..Len(last.results) :
                          last.results[i].exit_code # 0 => i = Len(last.commands))

C2_Witness ==
    /\ RunAnswered /\ last.fail_fast
    /\ Len(last.results) = Len(last.commands)
    /\ Len(last.results) >= 2
    /\ last.results[Len(last.results)].exit_code # 0

\* C3: with fail_fast the first command that exits non-zero is the last one executed:
\* results is the prefix of commands up to and including it (all of them if none fails),
\* and nothing after it is executed in the container.
C3_FailFastPrefix ==
    (last.op = "run" /\ last.fail_fast) =>
        LET results == last.results
            executed == ClientExecs(log, last.sid)
        IN  /\ Len(executed) <= Len(last.commands)
            /\ executed = SubSeq(last.commands, 1, Len(executed))
            /\ \A i \in 1..(Len(executed) - 1) : ExitCode(executed[i]) = 0
            /\ RunAnswered =>
                  /\ executed = ResultCommands(results)
                  /\ \A i \in 1..(Len(results) - 1) : results[i].exit_code = 0
                  /\ Len(results) < Len(last.commands) =>
                        /\ Len(results) >= 1
                        /\ results[Len(results)].exit_code # 0

C3_Witness ==
    /\ RunAnswered /\ last.fail_fast
    /\ Len(last.commands) = 3
    /\ Len(last.results) = 2
    /\ last.results[2].exit_code # 0
    /\ ClientExecs(log, last.sid) = SubSeq(last.commands, 1, 2)

\* C4: without fail_fast every command is executed exactly once, in submission order,
\* whatever the earlier exit codes, and results[i] is the result of commands[i].
C4_AllCommandsRun ==
    (RunAnswered /\ ~last.fail_fast) =>
        /\ ClientExecs(log, last.sid) = last.commands
        /\ Len(last.results) = Len(last.commands)
        /\ \A i \in 1..Len(last.commands) :
              /\ last.results[i].command = last.commands[i]
              /\ last.results[i].exit_code = ExitCode(last.commands[i])

C4_Witness ==
    /\ RunAnswered /\ ~last.fail_fast
    /\ Len(last.commands) = 3
    /\ last.results[1].exit_code # 0
    /\ last.results[3].exit_code = 0
    /\ ClientExecs(log, last.sid) = last.commands

\* C5: once close_session has returned 204 for an id the executor is gone for good:
\* it never exists again, and every later run_on_session on the id is answered 404
\* without any call to the engine.
C5_ClosedStaysClosed ==
    /\ [](last.op = "close" /\ last.status = 204 => containers[last.sid].state = "removed")
    /\ [][\A s \in ContainerIds :
            containers[s].state = "removed" =>
               /\ containers'[s].state = "removed"
               /\ (last'.op = "run" /\ last'.sid = s /\ <<last', log'>> # <<last, log>>) =>
                     /\ last'.status = 404
                     /\ log' = << >>]_vars

C5_Witness ==
    /\ last.op = "run" /\ last.status = 404
    /\ Len(last.commands) >= 1
    /\ containers[last.sid].state = "removed"

\* a step that is a close_session answered 204 on a session whose label names a
\* patch extractor
PatchingCloseStep ==
    /\ last'.op = "close" /\ last'.status = 204
    /\ Exists(containers, last'.sid)
    /\ containers[last'.sid].pe # 0

TeardownOrder(c, sid, calls) ==
    /\ Len(calls) = 3
    /\ calls[1] = Call("remove_container", c.pe, "", "")
    /\ calls[2] = Call("remove_container", sid, "", "")
    /\ calls[3].op = "remove_volume" /\ calls[3].target = c.vol

\* C6 as stated: close_session removes the patch extractor, then the executor, then the
\* volume, and when it returns 204 neither container nor the volume exists.
C6_TeardownLeavesNothing ==
    [][PatchingCloseStep =>
          LET c == containers[last'.sid]
              calls == SelectSeq(log', LAMBDA e : e.op # "restart")
          IN  /\ TeardownOrder(c, last'.sid, calls)
              /\ ~Exists(containers', c.pe)
              /\ ~Exists(containers', last'.sid)
              /\ volumes'[c.vol] # "present"]_vars

\* C6 amended: close_session removes the patch extractor, then the executor, and only
\* then tries to remove the volume; when it returns 204 neither container exists, and
\* the volume exists only if the engine refused its removal.
C6_TeardownOrdered ==
    [][PatchingCloseStep =>
          LET c == containers[last'.sid]
              calls == SelectSeq(log', LAMBDA e : e.op # "restart")
          IN  /\ TeardownOrder(c, last'.sid, calls)
              /\ ~Exists(containers', c.pe)
              /\ ~Exists(containers', last'.sid)
              /\ volumes'[c.vol] = "present" <=> calls[3].arg = "failed"]_vars

C6_Witness ==
    /\ last.op = "close" /\ last.status = 204
    /\ \E i \in 1..Len(log) : log[i].op = "remove_volume" /\ log[i].arg = "removed"
    /\ \A v \in VolumeIds : volumes[v] # "present"
    /\ \A id \in ContainerIds : ~Exists(containers, id)

VolumeNotRemoved ==
    \E i \in 1..Len(log) : log[i].op = "remove_volume" /\ log[i].arg # "removed"

\* C7: when the volume cannot be removed during close_session, the executor is removed
\* all the same and the answer is 204.
C7_VolumeFailureIgnored ==
    (last.op = "close" /\ VolumeNotRemoved) =>
        /\ last.status = 204
        /\ ~Exists(containers, last.sid)

C7_Witness ==
    /\ last.op = "close" /\ VolumeNotRemoved
    /\ \E v \in VolumeIds : volumes[v] = "present"

\* C8: a run_on_session request on a session that resolves, whose archive the sanitizer
\* rejects, is answered 400.
C8_RejectedArchive400 ==
    (/\ last.op = "run"
     /\ last.archive.present
     /\ ~_sanitize_archive_bytes(last.archive).ok
     /\ last.status # 404) => last.status = 400

\* a member the sanitizer is to refuse: a link, a device, a fifo, an absolute name
\* or a name with a ".." segment
Offending(member) ==
    \/ member.type \notin {"REGTYPE", "DIRTYPE"}
    \/ StartsWith(member.name, <<"/">>)
    \/ \E i \in 1..Len(SplitSlash(member.name)) : SplitSlash(member.name)[i] = <<".", ".">>

\* C9: an archive with an offending member, whatever its name and position, makes
\* _sanitize_archive_bytes fail and return nothing.
C9_OffendingRejected ==
    (/\ sanitized.done
     /\ \E i \in 1..Len(data.members) : Offending(data.members[i]))
        => (~sanitized.ok /\ sanitized.out = << >>)

\* C10: every member of an archive _sanitize_archive_bytes returns is a regular file or
\* a directory, with a relative name without ".." segment or leading "./", uid RUN_UID,
\* gid RUN_GID, empty uname and gname, and mtime 0.
C10_OutputMembers ==
    (sanitized.done /\ sanitized.ok) =>
        \A i \in 1..Len(sanitized.out) :
            LET m == sanitized.out[i]
            IN  /\ m.type \in {"REGTYPE", "DIRTYPE"}
                /\ m.name # << >>
                /\ ~StartsWith(m.name, <<"/">>)
                /\ ~StartsWith(m.name, <<".", "/">>)
                /\ \A j \in 1..Len(SplitSlash(m.name)) : SplitSlash(m.name)[j] # <<".", ".">>
                /\ m.uid = RUN_UID /\ m.gid = RUN_GID
                /\ m.uname = "" /\ m.gname = ""
                /\ m.mtime = 0

C10_Witness ==
    /\ sanitized.done /\ sanitized.ok
    /\ Len(sanitized.out) = 2
    /\ StartsWith(data.members[1].name, <<".", "/">>)
    /\ data.members[2].type = "DIRTYPE"

\* bit k of a mode (0 = others' execute, 8 = user's read, 9..11 = sticky, setgid, setuid)
Bit(m, k) == (m \div (2^k)) % 2

\* C11: whatever the input mode, the output mode has no setuid, setgid or sticky bit,
\* has read for all and write for the user, keeps the input's group and other write
\* bits, and has all three execute bits when the member is a directory or the input
\* has any execute bit, and none of them otherwise.
C11_ModePolicy ==
    (sanitized.done /\ sanitized.ok /\ Len(data.members) = 1 /\ Len(sanitized.out) = 1) =>
        LET m == data.members[1].mode
            out == sanitized.out[1].mode
            exec == data.members[1].type = "DIRTYPE" \/ \E k \in {0, 3, 6} : Bit(m, k) = 1
        IN  /\ out \in 0..511
            /\ \A k \in {9, 10, 11} : Bit(out, k) = 0
            /\ \A k \in {2, 5, 8} : Bit(out, k) = 1
            /\ Bit(out, 7) = 1
            /\ \A k \in {1, 4} : Bit(out, k) = Bit(m, k)
            /\ \A k \in {0, 3, 6} : Bit(out, k) = (IF exec THEN 1 ELSE 0)

\* a regular file with setuid and only the group's execute bit (0o4010) comes out 0o755
C11_Witness ==
    /\ sanitized.done /\ sanitized.ok
    /\ Len(data.members) = 1
    /\ data.members[1].type = "REGTYPE"
    /\ data.members[1].mode = 2056
    /\ sanitized.out[1].mode = 493

RestartsOf(l, id) == Len(SelectSeq(l, LAMBDA e : e.op = "restart" /\ e.target = id))

\* a step that is run_on_session handling a request on session s
RunStepOn(s) == last'.op = "run" /\ last'.sid = s /\ <<last', log'>> # <<last, log>>

\* C17: run_on_session on a container that does not exist fails with 404; on one that is
\* not running it tries one restart and goes on only if the container is running after
\* it, failing with 404 otherwise; no command runs on a container last seen not running.
C17_ResolveOrNotFound ==
    [][\A s \in ContainerIds : RunStepOn(s) =>
          /\ ~Exists(containers, s) => (last'.status = 404 /\ log' = << >>)
          /\ containers[s].state = "running" => (RestartsOf(log', s) = 0 /\ last'.status # 404)
          /\ containers[s].state = "exited" =>
                /\ RestartsOf(log', s) = 1
                /\ log'[1] = Call("restart", s, "", "")
                /\ last'.status = 404 <=> containers'[s].state # "running"
                /\ last'.status = 404 => Len(log') = 1
          /\ (\E i \in 1..Len(log') : log'[i].op \in {"exec", "put_archive"} /\ log'[i].target = s)
                => containers'[s].state = "running"]_vars

\* a request served by a container that was stopped and came back on the restart
C17_Witness ==
    /\ last.op = "run" /\ last.status = 200
    /\ Len(last.results) >= 1
    /\ log[1] = Call("restart", last.sid, "", "")
    /\ containers[last.sid].state = "running"

\* the exec_run calls of the last request that carry one of its commands
CommandCalls == SelectSeq(log, LAMBDA e : e.op = "exec" /\ e.arg \in {last.commands[i] : i \in 1..Len(last.commands)})

\* C18: every command of a request is executed as the argv ["/bin/sh", "-c", command],
\* as RUN_UID:RUN_GID and with the fixed HOME and XDG environment; none runs as root,
\* in any container.
C18_CommandsAsSandboxUser ==
    last.op = "run" =>
        /\ \A i \in 1..Len(CommandCalls) :
              LET e == CommandCalls[i]
              IN  /\ e.argv = <<"/bin/sh", "-c", e.arg>>
                  /\ e.user = "1000:1000"
                  /\ e.user # "root"
                  /\ e.target = last.sid
                  /\ e.environment =
                        {<<"HOME", "/home/daiv-sandbox">>,
                         <<"XDG_CACHE_HOME", "/home/daiv-sandbox/.cache">>,
                         <<"XDG_CONFIG_HOME", "/home/daiv-sandbox/.config">>,
                         <<"XDG_STATE_HOME", "/home/daiv-sandbox/.local/state">>,
                         <<"XDG_DATA_HOME", "/home/daiv-sandbox/.local/share">>}
        /\ RunAnswered => Len(CommandCalls) = Len(last.results)

\* commands run after an archive was extracted by root in the same request
C18_Witness ==
    /\ RunAnswered
    /\ Len(CommandCalls) = 3
    /\ \E i \in 1..Len(log) : log[i].op = "exec" /\ log[i].user = "root"

\* C19: each command of a request runs in /repo unless the request sets workdir, and
\* then in that directory, a relative one resolved under /repo, an absolute one as it is.
C19_WorkdirOverride ==
    last.op = "run" =>
        \A i \in 1..Len(CommandCalls) :
            CommandCalls[i].workdir =
                (IF last.workdir = NoPath THEN <<"/", "repo">>
                 ELSE IF Head(last.workdir) = "/" THEN last.workdir
                 ELSE <<"/", "repo", "/">> \o last.workdir)

\* the names of a path once its "." and ".." are resolved from the root
RECURSIVE RealParts(_, _)
RealParts(parts, seen) ==
    IF parts = << >> THEN seen
    ELSE IF Head(parts) = <<"..">>
         THEN RealParts(Tail(parts), IF seen = << >> THEN << >> ELSE SubSeq(seen, 1, Len(seen) - 1))
         ELSE RealParts(Tail(parts), Append(seen, Head(parts)))

\* the directory is /repo, /workdir, or lies beneath one of them
UnderSandboxRoots(dir) ==
    LET real == RealParts(PathParts(dir), << >>)
    IN  /\ IsAbsolute(dir)
        /\ real # << >>
        /\ real[1] \in {<<"repo">>, <<"workdir">>}

\* C20: copy_to_container either refuses the dest before anything is run in the
\* container, or clears, creates and extracts into one directory that really lies in
\* /repo or /workdir or beneath them; the container root is always refused.
C20_ExtractsUnderRoots ==
    copy.done =>
        \/ copy.raised /\ log = << >>
        \/ /\ ~copy.raised
           /\ log # << >>
           /\ \A i \in 1..Len(log) :
                 /\ log[i].path # <<"/">>
                 /\ UnderSandboxRoots(log[i].path)

\* C15: every endpoint answers 403 to a request whose X-API-Key header is missing or is
\* not the configured secret.
C15_KeyRequiredEverywhere ==
    (last.op # "none" /\ (~api_key_header.present \/ api_key_header.value # API_KEY))
        => last.status = 403

\* the last request was a turn with an archive on a session that records a patch extractor
PatchingTurn ==
    /\ last.op = "run"
    /\ last.archive.present
    /\ containers[last.sid].pe # 0

\* the files of the archive A the request carried
ArchiveTree(archive) == Extract(EmptyTree, _sanitize_archive_bytes(archive).out, TRUE)

\* the hunks of the patch the client received
ReturnedPatch == IF last.patch.null THEN {} ELSE Base64Decode(last.patch.base64)

\* git apply: every hunk finds the file as the patch says it was
Applies(tree, hunks) == \A h \in hunks : tree[h.path] = h.old

Apply(tree, hunks) ==
    [p \in WorkPaths |->
        IF \E h \in hunks : h.path = p THEN (CHOOSE h \in hunks : h.path = p).new ELSE tree[p]]

\* C12: on a session started with extract_patch, the patch a turn returns, applied to
\* the archive A of the turn, yields exactly the workspace A' the commands left, files
\* inside directories named .git included.
C12_PatchYieldsWorkspace ==
    PatchingTurn =>
        /\ last.status = 200
        /\ Applies(ArchiveTree(last.archive), ReturnedPatch)
        /\ Apply(ArchiveTree(last.archive), ReturnedPatch) = repo[last.sid]

\* none of the commands of the last request writes to the workspace
NoWrites == \A i \in 1..Len(last.commands) : last.commands[i] \notin WritingCommands

\* C13: in a session started with extract_patch, after any earlier turns, a turn with an
\* archive whose commands change no file is answered 200 with patch = null.
C13_NoOpTurnNullPatch ==
    (PatchingTurn /\ NoWrites) => (last.status = 200 /\ last.patch.null)

\* some call of the request went to container id
CallsOn(l, id) == \E i \in 1..Len(l) : l[i].target = id

\* the request ran the diff script in container id
ScriptRunOn(l, id) ==
    \E i \in 1..Len(l) : l[i].op = "exec" /\ l[i].target = id
                            /\ l[i].arg = "CMD_GIT_DIFF_EXTRACTOR_SCRIPT"

IsPurge(e, id) ==
    /\ e.op = "exec" /\ e.target = id /\ e.user = "root"
    /\ e.argv = <<"/bin/sh", "-c", "rm -rf -- dir/* dir/.[!.]* dir/..?*">>
    /\ e.path = <<"/", "repo">>

\* the members of the archive laid over the files that were there
Overlay(tree, archive) ==
    [p \in WorkPaths |-> IF ArchiveTree(archive)[p] # Absent THEN ArchiveTree(archive)[p]
                         ELSE tree[p]]

\* the workspace after the commands the request had executed in container id
AfterCommands(l, id, tree) ==
    RunEffects([i \in 1..Len(ClientExecs(l, id)) |-> [command |-> ClientExecs(l, id)[i]]],
               tree)

\* C21: on an ephemeral session every turn with an archive purges /repo, dotfiles
\* included, before it extracts, so that the commands start on exactly the archive's
\* members; on any other session no purge is made and the files of earlier turns that the
\* archive does not overwrite are still there.
C21_EphemeralPurge ==
    [][\A s \in ContainerIds :
          (/\ RunStepOn(s)
           /\ last'.archive.present
           /\ _sanitize_archive_bytes(last'.archive).ok
           /\ last'.status # 404) =>
             LET purges == {i \in 1..Len(log') : IsPurge(log'[i], s)}
                 puts == {i \in 1..Len(log') : log'[i].op = "put_archive" /\ log'[i].target = s}
             IN  IF containers[s].eph
                 THEN /\ Cardinality(purges) = 1
                      /\ \A i \in purges, j \in puts : i < j
                      /\ repo'[s] = AfterCommands(log', s, ArchiveTree(last'.archive))
                 ELSE /\ purges = {}
                      /\ repo'[s] = AfterCommands(log', s, Overlay(repo[s], last'.archive))]_vars

\* an ephemeral turn whose archive has no b and after which a file of an earlier turn is
\* gone, the purge being the first call of the request
C21_Witness ==
    /\ last.op = "run" /\ last.status = 200
    /\ last.archive.present
    /\ containers[last.sid].eph
    /\ IsPurge(log[1], last.sid)
    /\ last.commands = << >>
    /\ repo[last.sid] = ArchiveTree(last.archive)

\* where in the calls of the last request the archive is extracted and normalized in
\* container id, where its commands run there, and where container id is worked on
CopyCallsAt(id) ==
    {i \in 1..Len(log) : log[i].target = id /\ (log[i].op = "put_archive" \/ log[i].user = "root")}
CommandCallsAt(id) ==
    {i \in 1..Len(log) : log[i].target = id /\ log[i].op = "exec" /\ log[i].user = SandboxUser}
CallsAt(id) == {i \in 1..Len(log) : id # 0 /\ log[i].target = id}

\* C22: within one run_on_session request the archive is extracted and its permissions
\* and ownership are normalized before the first command starts, command i finishes
\* before command i+1 starts, and every operation on the patch extractor starts only
\* after the last executed command.
C22_StepsInOrder ==
    last.op = "run" =>
        LET s == last.sid
            pe == containers[s].pe
            ran == ClientExecs(log, s)
        IN  /\ \A i \in CopyCallsAt(s), j \in CommandCallsAt(s) : i < j
            /\ (last.archive.present /\ CommandCallsAt(s) # {}) =>
                   \E i, j, k \in CopyCallsAt(s) :
                      /\ i < j /\ j < k
                      /\ log[i].op = "put_archive"
                      /\ log[j].argv[1] = "chmod"
                      /\ log[k].argv[1] = "chown"
            /\ Len(ran) <= Len(last.commands)
            /\ \A n \in 1..Len(ran) : ran[n] = last.commands[n]
            /\ \A j \in CommandCallsAt(s), k \in CallsAt(pe) : j < k
            /\ \A i \in CopyCallsAt(s), k \in CallsAt(pe) : i < k

\* a turn with an archive, three commands and the patch builder
C22_Witness ==
    /\ last.op = "run" /\ last.status = 200
    /\ last.archive.present
    /\ Cardinality(CommandCallsAt(last.sid)) = 3
    /\ ScriptRunOn(log, containers[last.sid].pe)

\* where in the calls of the last request a volume is created, and where a container of
\* the given type is run
VolumeCreatedAt == {i \in 1..Len(log) : log[i].op = "create_volume"}
RunAt(type) == {i \in 1..Len(log) : log[i].op = "run" /\ log[i].options.labels.type = type}

\* C23: start_session with extract_patch creates the volume, then the patch extractor,
\* then the executor; the volume is named daiv-sandbox-workdir-<uuid> and labelled
\* managed=1; that one name is mounted read-only at /workdir/new in the patch extractor
\* and read-write at /repo in the executor; the session id returned is the executor's.
C23_StartOrderAndMounts ==
    (last.op = "start" /\ last.status # 403 /\ last.request.extract_patch) =>
        /\ \A i \in VolumeCreatedAt, j \in RunAt(TYPE_PATCH_EXTRACTOR),
              k \in RunAt(TYPE_CMD_EXECUTOR) : i < j /\ j < k
        /\ \A j \in RunAt(TYPE_PATCH_EXTRACTOR) \cup RunAt(TYPE_CMD_EXECUTOR) :
              \E i \in VolumeCreatedAt : i < j
        /\ RunAt(TYPE_CMD_EXECUTOR) # {} => RunAt(TYPE_PATCH_EXTRACTOR) # {}
        /\ \A i \in VolumeCreatedAt :
              /\ log[i].options.name[1] = "daiv-sandbox-workdir-"
              /\ log[i].options.labels.managed
              /\ \A j \in RunAt(TYPE_PATCH_EXTRACTOR) :
                    log[j].options.volumes =
                       {[name |-> log[i].options.name, bind |-> <<"/", "workdir", "/", "new">>,
                         mode |-> "ro"]}
              /\ \A k \in RunAt(TYPE_CMD_EXECUTOR) :
                    log[k].options.volumes =
                       {[name |-> log[i].options.name, bind |-> <<"/", "repo">>,
                         mode |-> "rw"]}
        /\ last.status = 200 =>
              /\ Cardinality(VolumeCreatedAt) = 1
              /\ Cardinality(RunAt(TYPE_PATCH_EXTRACTOR)) = 1
              /\ \E k \in RunAt(TYPE_CMD_EXECUTOR) : log[k].target = last.sid
              /\ \A j \in RunAt(TYPE_PATCH_EXTRACTOR) : log[j].target # last.sid
              /\ containers[last.sid].type = TYPE_CMD_EXECUTOR

\* a patching session started
C23_Witness ==
    /\ last.op = "start" /\ last.status = 200
    /\ last.request.extract_patch
    /\ VolumeCreatedAt = {1}
    /\ Cardinality(RunAt(TYPE_CMD_EXECUTOR)) = 1

\* C24: every patch extractor is started with network_mode=none; an executor is started
\* with network_mode=none exactly when the request has network_enabled=false; every
\* container is started with user RUN_UID:RUN_GID, entrypoint /bin/sh, command
\* ['-lc', 'sleep 3600'], detach, tty and remove set, and the configured runtime.
C24_NetworkPosture ==
    \A i \in 1..Len(log) : log[i].op = "run" =>
        /\ log[i].options.user = "1000:1000"
        /\ log[i].user = "1000:1000"
        /\ log[i].options.entrypoint = "/bin/sh"
        /\ log[i].options.command = <<"-lc", "sleep 3600">>
        /\ log[i].options.detach /\ log[i].options.tty /\ log[i].options.remove
        /\ log[i].options.runtime = "runc"
        /\ log[i].options.labels.type \in {"patch_extractor", "cmd_executor"}
        /\ log[i].options.labels.type = "patch_extractor" =>
              log[i].options.network_mode = "none"
        /\ log[i].options.labels.type = "cmd_executor" =>
              (log[i].options.network_mode = "none" <=> ~last.request.network_enabled)

\* a patching session on the network: the executor is on it, the patch extractor is not
C24_Witness ==
    /\ last.op = "start" /\ last.status = 200
    /\ last.request.extract_patch /\ last.request.network_enabled
    /\ \E i, j \in 1..Len(log) :
          /\ log[i].op = "run" /\ log[i].options.network_mode = "none"
          /\ log[j].op = "run" /\ log[j].options.network_mode = ""

\* what the diff script returned to the last request, if it ran
ScriptCalls == SelectSeq(log, LAMBDA e : e.op = "exec" /\ e.arg = "CMD_GIT_DIFF_EXTRACTOR_SCRIPT")

\* C25: when the diff script exits non-zero and its output does not contain 'nothing to
\* commit, working tree clean' the request fails with 500; when the output contains that
\* message or is blank the answer is 200 with patch = null; otherwise it is 200 with
\* patch = base64 of the output; a 200 carries the results of the commands executed.
C25_PatchBuilderOutcome ==
    (last.op = "run" /\ ScriptCalls # << >>) =>
        LET patch_result == ScriptCalls[1].result
            benign == patch_result.message = "nothing to commit, working tree clean"
            blank == patch_result.message = "" /\ patch_result.diff = {}
        IN  /\ Len(ScriptCalls) = 1
            /\ IF patch_result.exit_code # 0 /\ ~benign
               THEN last.status = 500
               ELSE IF benign \/ blank
               THEN last.status = 200 /\ last.patch.null
               ELSE /\ last.status = 200
                    /\ ~last.patch.null
                    /\ Base64Decode(last.patch.base64) = patch_result.diff
            /\ last.status = 200 => ResultCommands(last.results) = ClientExecs(log, last.sid)

\* the benign exit: the script ended non-zero on an unchanged workspace
C25_Witness ==
    /\ last.op = "run" /\ last.status = 200
    /\ ScriptCalls # << >>
    /\ ScriptCalls[1].result.exit_code = 1
    /\ last.patch.null

\* the two other outcomes: a patch, and a failure
C25_WitnessPatch ==
    /\ last.op = "run" /\ last.status = 200 /\ ~last.patch.null /\ Len(last.results) = 1
C25_WitnessFailure ==
    /\ last.op = "run" /\ last.status = 500 /\ ScriptCalls # << >>
    /\ ScriptCalls[1].result.message = "fatal"

\* C26: a start with a user argument is refused with an error and creates no container;
\* every container that is created runs as RUN_UID:RUN_GID.
C26_UserOverrideRejected ==
    [][/\ (started'.done /\ started'.kwargs.user # "" /\ <<started', log'>> # <<started, log>>) =>
             /\ started'.raised
             /\ containers' = containers
             /\ log' = << >>
       /\ \A i \in 1..Len(log') : log'[i].op = "run" =>
             (log'[i].options.user = "1000:1000" /\ log'[i].user = "1000:1000")
       /\ \A id \in ContainerIds :
             (containers[id].state = "none" /\ containers'[id].state # "none") =>
                \E i \in 1..Len(log') :
                   /\ log'[i].op = "run" /\ log'[i].target = id
                   /\ log'[i].options.user = "1000:1000"]_vars

\* a start with user='root' refused after a start that made a container
C26_Witness ==
    /\ started.done /\ started.raised
    /\ started.kwargs.user = "root"
    /\ \E id \in ContainerIds : containers[id].state = "running"

\* C27: a start request without base_image is rejected with 400 and creates no volume
\* and no container.
C27_BaseImageRequired ==
    (last.op = "start" /\ last.status # 403 /\ last.request.base_image = NoImage) =>
        /\ last.status = 400
        /\ \A i \in 1..Len(log) : log[i].op \notin {"create_volume", "run"}

(***************************************************************************)
(* run_on_session step by step.  The handler takes no lock and keeps no    *)
(* state between requests: a session is the containers the engine holds,   *)
(* so two processes serving the app can each be inside run_on_session for  *)
(* the same session id, between any two of its engine calls.               *)
(***************************************************************************)

TurnCommandLists == SeqsUpTo(Commands, MaxTurnCommands)

\* the command loop leaving every command unrun
LoopDone_Always(turn) == TRUE

\* main.py 187-193: the for loop is over: no command is left, or fail_fast broke it
LoopDone(turn) ==
    \/ Len(turn.results) = Len(turn.commands)
    \/ /\ turn.fail_fast
       /\ turn.results # << >>
       /\ turn.results[Len(turn.results)].exit_code # 0

\* main.py 172-184: the executor resolves; the request carries an archive
Receive(w, session_id, commands, fail_fast, archive) ==
    /\ turns[w] = Idle
    /\ containers[session_id].type = TYPE_CMD_EXECUTOR
    /\ containers[session_id].state = "running"
    /\ archive.present
    /\ turns' = [turns EXCEPT ![w] = [pc |-> "copy", sid |-> session_id, commands |-> commands,
                                      fail_fast |-> fail_fast, archive |-> archive,
                                      results |-> << >>]]
    /\ UNCHANGED <<containers, volumes, last, log, data, sanitized, copy, api_key_header, repo,
                   started, baseline>>

\* main.py 184-185: the archive is copied into the executor
CopyArchive(w) ==
    /\ turns[w].pc = "copy"
    /\ turns' = [turns EXCEPT ![w].pc = "loop"]
    /\ UNCHANGED <<containers, volumes, last, log, data, sanitized, copy, api_key_header, repo,
                   started, baseline>>

\* main.py 187-188: execute_command is entered for the next command
CommandStarts(w) ==
    /\ turns[w].pc = "loop"
    /\ ~LoopDone(turns[w])
    /\ turns' = [turns EXCEPT ![w].pc = "exec"]
    /\ UNCHANGED <<containers, volumes, last, log, data, sanitized, copy, api_key_header, repo,
                   started, baseline>>

\* main.py 188-189: execute_command returns and its result is appended
CommandEnds(w) ==
    /\ turns[w].pc = "exec"
    /\ LET command == turns[w].commands[Len(turns[w].results) + 1]
       IN  turns' = [turns EXCEPT ![w].pc = "loop",
                                  ![w].results = Append(@, execute_command(command, NoPath))]
    /\ UNCHANGED <<containers, volumes, last, log, data, sanitized, copy, api_key_header, repo,
                   started, baseline>>

\* main.py 195-197, 224: after the loop, the patch extractor label decides what follows
LoopEnds(w) ==
    /\ turns[w].pc = "loop"
    /\ LoopDone(turns[w])
    /\ turns' = [turns EXCEPT ![w] = IF containers[turns[w].sid].pe # 0
                                     THEN [@ EXCEPT !.pc = "baseline"]
                                     ELSE Idle]
    /\ UNCHANGED <<containers, volumes, last, log, data, sanitized, copy, api_key_header, repo,
                   started, baseline>>

\* main.py 199-200: rm -rf /workdir/old /workdir/meta and mkdir -p /workdir/old
Purged(b, w) == [old |-> {}, by |-> {w}]

\* the archive never reaching /workdir/old
Filled_Nothing(b, w, archive) == [b EXCEPT !.by = @ \cup {w}]

\* main.py 205: the request's archive is extracted into /workdir/old
Filled(b, w, archive) == [old |-> b.old \cup {archive}, by |-> b.by \cup {w}]

\* main.py 198-200: the handler purges /workdir/old of the session's patch extractor
PurgeOld(w) ==
    /\ turns[w].pc = "baseline"
    /\ turns' = [turns EXCEPT ![w].pc = "put"]
    /\ baseline' = [baseline EXCEPT ![containers[turns[w].sid].pe] = Purged(@, w)]
    /\ UNCHANGED <<containers, volumes, last, log, data, sanitized, copy, api_key_header, repo,
                   started>>

\* main.py 205: the handler copies the archive of its request to /workdir/old
FillOld(w) ==
    /\ turns[w].pc = "put"
    /\ turns' = [turns EXCEPT ![w].pc = "script"]
    /\ baseline' = [baseline EXCEPT ![containers[turns[w].sid].pe] =
                                       Filled(@, w, turns[w].archive)]
    /\ UNCHANGED <<containers, volumes, last, log, data, sanitized, copy, api_key_header, repo,
                   started>>

\* main.py 208-224: the script, which reads the volume at /workdir/new, returns
ScriptEnds(w) ==
    /\ turns[w].pc = "script"
    /\ turns' = [turns EXCEPT ![w] = Idle]
    /\ UNCHANGED <<containers, volumes, last, log, data, sanitized, copy, api_key_header, repo,
                   started, baseline>>

NextTurns ==
    \E w \in Workers :
       \/ \E session_id \in ContainerIds, commands \in TurnCommandLists, fail_fast \in BOOLEAN :
             Receive(w, session_id, commands, fail_fast, GoodArchive)
       \/ CopyArchive(w)
       \/ CommandStarts(w)
       \/ CommandEnds(w)
       \/ LoopEnds(w)
       \/ PurgeOld(w)
       \/ FillOld(w)
       \/ ScriptEnds(w)

SpecTurns == InitRun /\ [][NextTurns]_vars

\* two archives a client may send, of different files
OtherArchive == Tar(<<InMember(<<"b">>, "REGTYPE", 420)>>)
TurnArchives == {GoodArchive, OtherArchive}

NextBaseline ==
    \E w \in Workers :
       \/ \E session_id \in ContainerIds, archive \in TurnArchives :
             Receive(w, session_id, <<"true">>, FALSE, archive)
       \/ CopyArchive(w)
       \/ CommandStarts(w)
       \/ CommandEnds(w)
       \/ LoopEnds(w)
       \/ PurgeOld(w)
       \/ FillOld(w)
       \/ ScriptEnds(w)

SpecBaseline == InitRun /\ [][NextBaseline]_vars

\* the patch extractor of the session is running the script for request w
Reading(w) == turns[w].pc = "script"

\* a command of request w is executing in the executor
Executing(w) == turns[w].pc = "exec"

\* C28 as stated: while the patch extractor reads the volume of a session, no command is
\* executing in the executor of that session, whatever requests on its id are in flight
C28_StableSnapshot ==
    \A w \in Workers, v \in Workers :
       (Reading(w) /\ turns[v].sid = turns[w].sid) => ~Executing(v)

\* C28 amended: while the patch extractor reads the volume for a request, every command of
\* that request has finished (all of them, or up to the one fail_fast stopped at); a command
\* executing meanwhile belongs to another request on the same session id
C28_OwnCommandsFinished ==
    \A w \in Workers :
       turns[w].pc \in {"baseline", "put", "script"} =>
          /\ turns[w].results = RunCommands(turns[w].commands, turns[w].fail_fast, << >>)
          /\ \A v \in Workers : (Executing(v) /\ turns[v].sid = turns[w].sid) => v # w

\* the extractor reads for one request that ran commands while another request on the same
\* session id is executing one
C28_Witness ==
    \E w \in Workers, v \in Workers :
       /\ Reading(w) /\ turns[w].results # << >>
       /\ Executing(v) /\ turns[v].sid = turns[w].sid

\* a step that is run_on_session handling a request, whatever the id it was given
RunStep == \E s \in ContainerIds : RunStepOn(s)

\* the labels and the mounts of a container, which is all but its run state
Labelled(c) == [c EXCEPT !.state = ""]

\* C29: whatever its outcome (200, 404, 500), run_on_session removes neither the executor
\* nor the patch extractor nor the workspace volume and changes no label: every container
\* and volume that existed before the call exists after it with the labels it had, and the
\* only change is a container that had exited running again.
C29_RunKeepsSession ==
    [][RunStep =>
          /\ volumes' = volumes
          /\ \A id \in ContainerIds :
                /\ Exists(containers', id) = Exists(containers, id)
                /\ Labelled(containers'[id]) = Labelled(containers[id])
                /\ containers'[id].state # containers[id].state =>
                      (containers[id].state = "exited" /\ containers'[id].state = "running")]_vars

\* a run on a patching session has failed with 500 after restarting its exited executor;
\* the executor, its patch extractor and the volume are all still there
C29_Witness ==
    /\ last.op = "run" /\ last.status = 500
    /\ RestartsOf(log, last.sid) = 1
    /\ containers[last.sid].state = "running"
    /\ containers[last.sid].pe # 0
    /\ Exists(containers, containers[last.sid].pe)
    /\ volumes[containers[last.sid].vol] = "present"

(***************************************************************************)
(* Several sessions on one engine: room for MaxSessions sessions, each     *)
(* with its patch extractor and its volume.                                *)
(***************************************************************************)

PairContainerIds == 1..(MaxSessions * MaxContainers)
PairVolumeIds == 1..(MaxSessions * MaxVolumes)

InitPair ==
    /\ containers = [id \in PairContainerIds |-> NoContainer]
    /\ volumes = [v \in PairVolumeIds |-> "none"]
    /\ last = NoExchange
    /\ log = << >>
    /\ data = NoArchive
    /\ sanitized = Pending
    /\ copy = NoCopy
    /\ started = NotStarted
    /\ turns = [w \in Workers |-> Idle]
    /\ baseline = [id \in DOMAIN containers |-> NoBaseline]
    /\ api_key_header = NoHeader
    /\ repo = [id \in PairContainerIds |-> EmptyTree]

\* the sessions the engine holds: the executors that exist
Sessions(cs) == {id \in DOMAIN cs : Exists(cs, id) /\ cs[id].type = TYPE_CMD_EXECUTOR}

NextPair ==
    \/ \E extract_patch \in BOOLEAN :
          /\ Cardinality(Sessions(containers)) < MaxSessions
          /\ StartSession(ValidKey, "alpine:latest", extract_patch, FALSE, TRUE, "none")
    \/ \E session_id \in PairContainerIds, commands \in {<< >>, <<"echo new > a">>} :
          \E scriptFails \in ScriptOutcomes(session_id, GoodArchive) :
             RunOnSession(ValidKey, session_id, commands, GoodArchive, FALSE, NoPath, TRUE, TRUE,
                          scriptFails)
    \/ \E session_id \in PairContainerIds :
          CloseSession(ValidKey, session_id, TRUE, TRUE, FALSE)

SpecPair == InitPair /\ [][NextPair]_vars

\* what a session is made of: its executor, its patch extractor, its volume, its workspace
SessionState(s) ==
    [executor |-> containers[s],
     extractor |-> IF containers[s].pe # 0 THEN containers[containers[s].pe] ELSE NoContainer,
     volume |-> IF containers[s].vol # 0 THEN volumes[containers[s].vol] ELSE "none",
     workspace |-> repo[s]]

\* a step that is a handler answering a request made on session id s (for start_session,
\* the id it returns)
HandlerStepOn(s) ==
    /\ last'.op \in {"start", "run", "close"}
    /\ last'.sid = s
    /\ <<last', log', containers'>> # <<last, log, containers>>

\* containers a and b belong to one session: one is the executor labelled with the other
SameSession(cs, a, b) ==
    \/ cs[a].type = TYPE_CMD_EXECUTOR /\ cs[a].pe = b
    \/ cs[b].type = TYPE_CMD_EXECUTOR /\ cs[b].pe = a

NoSharedVolume ==
    \A a \in DOMAIN containers, b \in DOMAIN containers :
       (/\ a # b
        /\ Exists(containers, a) /\ Exists(containers, b)
        /\ containers[a].mount # 0
        /\ containers[a].mount = containers[b].mount) => SameSession(containers, a, b)

\* C30: sessions are independent: start_session, run_on_session and close_session applied
\* to the session id of S1 leave the executor, the patch extractor, the volume and the
\* workspace contents of every other session S2 as they were, in whatever order the
\* requests of the sessions come; and no volume is mounted into containers of two sessions.
C30_SessionsIndependent ==
    /\ [][\A s1 \in PairContainerIds :
             (HandlerStepOn(s1) /\ (last'.op = "start" \/ s1 \in Sessions(containers))) =>
                \A s2 \in Sessions(containers) \ {s1} : SessionState(s2)' = SessionState(s2)]_vars
    /\ []NoSharedVolume

\* one patching session has just been closed, its containers and volume removed, while
\* another patching session keeps its containers, its volume and the files it was given
C30_Witness ==
    /\ last.op = "close" /\ last.status = 204
    /\ ~Exists(containers, last.sid)
    /\ \E v \in DOMAIN volumes : volumes[v] = "removed"
    /\ \E s2 \in Sessions(containers) :
          /\ s2 # last.sid
          /\ containers[s2].pe # 0 /\ Exists(containers, containers[s2].pe)
          /\ volumes[containers[s2].vol] = "present"
          /\ repo[s2] # EmptyTree

\* main.py 199-208: the commands the handler itself runs in the patch extractor
BrokerCommands ==
    {"rm -rf /workdir/old /workdir/meta", "mkdir -p /workdir/old", "CMD_GIT_DIFF_EXTRACTOR_SCRIPT"}

\* main.py 205: /workdir/old, where the baseline is copied
OldDir == WORKDIR_ROOT \o <<"/", "old">>

\* the calls of the last request made on a container that is a patch extractor
ExtractorCalls ==
    SelectSeq(log, LAMBDA e : /\ e.op \in {"exec", "put_archive"}
                              /\ containers[e.target].type = TYPE_PATCH_EXTRACTOR)

\* C31: the patch extractor never runs a command string of the client and is never written
\* under /workdir/new: what is executed in it as the sandbox user is one of the broker's
\* fixed commands, and the root commands and the archive copy are made on /workdir/old.
C31_ExtractorRunsOnlyBroker ==
    \A i \in 1..Len(ExtractorCalls) :
       LET e == ExtractorCalls[i]
       IN  /\ (e.op = "exec" /\ e.user = SandboxUser) => e.arg \in BrokerCommands
           /\ (e.op = "exec" /\ e.user = "root") => e.path = OldDir
           /\ e.op = "put_archive" => e.path = OldDir

\* C35: run_on_session and close_session act only on command executors: given the id of a
\* container that exists without the label type=cmd_executor, run_on_session executes and
\* copies nothing in it and close_session does not remove it.
C35_OnlyExecutors ==
    [][\A s \in DOMAIN containers :
          (/\ HandlerStepOn(s)
           /\ last'.op \in {"run", "close"}
           /\ last'.status # 403
           /\ Exists(containers, s)
           /\ containers[s].type # TYPE_CMD_EXECUTOR) =>
             /\ Exists(containers', s)
             /\ \A i \in 1..Len(log') :
                   log'[i].target = s =>
                      log'[i].op \notin {"exec", "put_archive", "remove_container"}]_vars

\* the input members the sanitizer does not skip, in their input order
KeptMembers(members) ==
    SelectSeq(members, LAMBDA m : StripDotSlash(m.name) \notin {<< >>, <<".">>})

\* C32 as stated: the output members are the input members that are not skipped, in the
\* same order and as many, each named by its input name with the leading "./" stripped.
C32_OrderAndStrippedNames ==
    (sanitized.done /\ sanitized.ok) =>
       LET kept == KeptMembers(data.members)
       IN  /\ Len(sanitized.out) = Len(kept)
           /\ \A i \in 1..Len(kept) : sanitized.out[i].name = StripDotSlash(kept[i].name)

\* C32 amended: the output members are the input members that are not skipped, in the same
\* order and as many, duplicates kept; each is named by the normalized path of its input
\* name, which is the name with the leading "./" stripped and then written as
\* PurePosixPath writes it: empty and "." segments and redundant slashes dropped.
C32_OrderAndNormalizedNames ==
    (sanitized.done /\ sanitized.ok) =>
       LET kept == KeptMembers(data.members)
       IN  /\ Len(sanitized.out) = Len(kept)
           /\ \A i \in 1..Len(kept) :
                 /\ sanitized.out[i].name = PathStr(StripDotSlash(kept[i].name))
                 /\ isdir(sanitized.out[i]) = isdir(kept[i])

\* an accepted archive of two members that come out under one name, both kept, the second
\* of them named otherwise than by stripping "./" alone
C32_Witness ==
    /\ sanitized.done /\ sanitized.ok
    /\ Len(sanitized.out) = 2
    /\ sanitized.out[1].name = sanitized.out[2].name
    /\ data.members[1].name # data.members[2].name
    /\ sanitized.out[2].name # StripDotSlash(data.members[2].name)

\* an accepted archive whose first member is skipped and whose second is kept
C32_WitnessSkip ==
    /\ sanitized.done /\ sanitized.ok
    /\ Len(data.members) = 2 /\ Len(sanitized.out) = 1
    /\ sanitized.out[1].name = PathStr(StripDotSlash(data.members[2].name))

\* a step that is close_session handling a request on session s
CloseStepOn(s) == last'.op = "close" /\ last'.sid = s /\ <<last', log', containers'>> # <<last, log, containers>>

\* the patch extractors the engine holds
Extractors(cs) == {id \in DOMAIN cs : Exists(cs, id) /\ cs[id].type = TYPE_PATCH_EXTRACTOR}

\* C33: once the engine has removed the executor of a patching session, the session is
\* closed at next access: run_on_session on its id answers 404, and close_session on its id
\* answers 204 and still removes the patch extractor and the volume of the session.
C33_RemovedExecutorClosable ==
    [][\A s \in ContainerIds :
          (containers[s].state = "removed" /\ Extractors(containers) # {} /\ last'.status # 403) =>
             /\ RunStepOn(s) => last'.status = 404
             /\ CloseStepOn(s) =>
                   /\ last'.status = 204
                   /\ Extractors(containers') = {}
                   /\ \A v \in VolumeIds : volumes'[v] # "present"]_vars

\* the archive is one the sanitizer raises on: not a tar, or a member it refuses
Refused(archive) ==
    archive.present /\ (~archive.readable \/ ~SanitizeMembers(archive.members, << >>).ok)

\* C34: a run_on_session request whose archive is rejected leaves the workspace exactly as
\* it was: nothing is purged, created, extracted or chowned, no command of the request is
\* executed, and nothing is done on the patch extractor; the request fails.
C34_RejectedArchiveNoEffect ==
    [][\A s \in ContainerIds :
          (RunStepOn(s) /\ Refused(last'.archive)) =>
             /\ last'.status \in {404, 500}
             /\ last'.results = << >>
             /\ repo' = repo
             /\ \A i \in 1..Len(log') : log'[i].op = "restart" /\ log'[i].target = s]_vars

\* a request with commands and a rejected archive was made on a running patching session
\* whose workspace held files, and was answered 500
C34_Witness ==
    /\ last.op = "run" /\ last.status = 500
    /\ Refused(last.archive)
    /\ last.commands # << >>
    /\ containers[last.sid].state = "running"
    /\ containers[last.sid].pe # 0
    /\ repo[last.sid] # EmptyTree

\* a step that is start_session answering a request with extract_patch by a failure
FailedPatchingStart ==
    /\ last'.op = "start" /\ last'.status = 500 /\ last'.request.extract_patch
    /\ <<last', log', containers', volumes'>> # <<last, log, containers, volumes>>

\* the containers and the volumes the last request asked the engine to create
RunTargets(l) == {l[i].target : i \in {j \in 1..Len(l) : l[j].op = "run"}}
VolumeTargets(l) == {l[i].target : i \in {j \in 1..Len(l) : l[j].op = "create_volume"}}

\* C36 as stated: start_session is all-or-nothing: when a call with extract_patch fails
\* after the volume was created, no volume and no container it created remains.
C36_StartAllOrNothing ==
    [][FailedPatchingStart => (containers' = containers /\ volumes' = volumes)]_vars

\* C36 amended: start_session undoes nothing: when a call with extract_patch fails after
\* the volume was created, the volume remains, and so does every container the call had
\* created before the failing step (the patch extractor once started, the executor when
\* the failure is in its mkdir or chown); nothing else in the engine changes.
C36_FailedStartKeepsCreated ==
    [][FailedPatchingStart =>
          /\ VolumeTargets(log') # {}
          /\ \A v \in VolumeIds :
                IF v \in VolumeTargets(log')
                THEN volumes[v] = "none" /\ volumes'[v] = "present"
                ELSE volumes'[v] = volumes[v]
          /\ \A id \in ContainerIds :
                IF id \in RunTargets(log')
                THEN ~Exists(containers, id) /\ Exists(containers', id)
                ELSE containers'[id] = containers[id]]_vars

\* a start with extract_patch has failed in the executor's directories: the volume, the
\* patch extractor and the executor it created are all there
C36_Witness ==
    /\ last.op = "start" /\ last.status = 500 /\ last.request.extract_patch
    /\ Cardinality(RunTargets(log)) = 2
    /\ \A id \in RunTargets(log) : Exists(containers, id)
    /\ \E v \in VolumeTargets(log) : volumes[v] = "present"

\* /workdir/old of the patch extractor of the session request w is made on
OldOf(w) == baseline[containers[turns[w].sid].pe]

SessionEndpointStep ==
    /\ last'.op \in {"start", "run", "close"}
    /\ <<last', log', containers', volumes', api_key_header'>>
          # <<last, log, containers, volumes, api_key_header>>

\* the X-API-Key header is missing or is not the configured key
BadKey(header) == ~header.present \/ header.value # API_KEY

\* C38: a request on POST /session/, POST /session/{id}/ or DELETE /session/{id}/ with a
\* missing or invalid X-API-Key is answered 403 before the handler body runs: no engine
\* call is made, and containers, volumes and workspaces are as they were.
C38_ForbiddenNoEffect ==
    [][(SessionEndpointStep /\ BadKey(api_key_header')) =>
          /\ last'.status = 403
          /\ log' = << >>
          /\ containers' = containers
          /\ volumes' = volumes
          /\ repo' = repo]_vars

\* a close request with an invalid key was refused on a session that exists, and exists still
C38_Witness ==
    /\ last.op = "close" /\ last.status = 403
    /\ api_key_header.present /\ api_key_header.value # API_KEY
    /\ Exists(containers, last.sid)
    /\ containers[last.sid].type = TYPE_CMD_EXECUTOR

(***************************************************************************)
(* Turns with fail_fast on sessions with a patch extractor: commands that  *)
(* write, and one that fails.                                              *)
(***************************************************************************)

FailFastCommandLists == SeqsUpTo({"echo new > a", "false", "echo new > b"}, MaxFailFastCommands)

NextFailFast ==
    \E session_id \in Executors, commands \in FailFastCommandLists, fail_fast \in BOOLEAN :
       RunOnSession(ValidKey, session_id, commands, GoodArchive, fail_fast, NoPath, TRUE, TRUE,
                    FALSE)

SpecFailFast == InitRun /\ [][NextFailFast]_vars

\* the position in the log of the last call that satisfies P, 0 when there is none
LastCall(l, P(_)) ==
    LET S == {i \in 1..Len(l) : P(l[i])}
    IN  IF S = {} THEN 0 ELSE CHOOSE i \in S : \A j \in S : j <= i

C39_WitnessStopped ==
    /\ last.op = "run" /\ last.status = 200 /\ last.fail_fast
    /\ last.commands = <<"false", "echo new > b">>
    /\ Len(last.results) = 1
    /\ containers[last.sid].pe # 0
    /\ ScriptRunOn(log, containers[last.sid].pe)
    /\ repo[last.sid][<<"b">>] = Absent

\* C40: the sanitizer is idempotent on its own output: for every archive it accepts,
\* sanitizing the archive it returned succeeds and returns the same members, in the same
\* order, with the same names, types, modes, owners, times, sizes and contents.
C40_SanitizeIdempotent ==
    (sanitized.done /\ sanitized.ok) =>
       LET again == _sanitize_archive_bytes(Tar(sanitized.out))
       IN  again.ok /\ again.out = sanitized.out

\* an accepted archive of two members, which the sanitizer renamed and whose owner, time
\* and mode it rewrote: its output differs from its input
C40_Witness ==
    /\ sanitized.done /\ sanitized.ok
    /\ Len(sanitized.out) = 2
    /\ sanitized.out[1].name # sanitized.out[2].name
    /\ sanitized.out[1].name # data.members[1].name
    /\ sanitized.out[1].mode # data.members[1].mode
    /\ sanitized.out[1].uid # data.members[1].uid

====
